---- MODULE Spec2Model ----
(***************************************************************************)
(* A model of the record normalisation and field-mapping core of the      *)
(* mobile-de-shopify-app server: safeParseMaybeList, normalizeItem,       *)
(* expandAttributesToColumns, buildMetafieldsRow and the handle           *)
(* construction shared by the Shopify mappers.                            *)
(*                                                                         *)
(* JavaScript values are tagged records.  A JavaScript string is a tuple  *)
(* of characters, each character a TLA+ string; a character outside ASCII *)
(* is written by its code point ("U+20AC" is the euro sign).  A           *)
(* JavaScript object is the tuple of its <<key, value>> entries in        *)
(* insertion order.  Numbers in records are integers; the arithmetic of   *)
(* the price rule is IEEE-754 binary64, modelled on multi-limb naturals.  *)
(***************************************************************************)
EXTENDS Integers, Sequences, FiniteSets, TLC

VARIABLES
  item, mappingList,        \* the record and the mapping list of the call
  pc,                       \* where the call is
  row, tagsSet,             \* the row and the set of tags of buildMetafieldsRow
  amountStr, numVal,        \* the amount text and its number
  attributeColumns,         \* the object expandAttributesToColumns returned
  call,                     \* the outcome of one of the other functions
  exported,                 \* the row mapToNewMetafields returned
  given, result,            \* the argument and the outcome of a call of one
                            \* of the functions that stand alone
  items,                    \* the items GET /api/run-results has fetched
  timer, clock,             \* the page's poll timer and the seconds since it
                            \* was set or last fired
  sent, inFlight,           \* the number of polls the page has sent and the
                            \* polls without a response yet
  progress, links,          \* the page's progress text and download links
  runStatus                 \* the status of the run on the platform

vars == <<item, mappingList, pc, row, tagsSet, amountStr, numVal, attributeColumns, call, exported,
          given, result, items, timer, clock, sent, inFlight, progress, links, runStatus>>

\* the variables of the handler of /api/run-results and of the page
pageVars == <<timer, clock, sent, inFlight, progress, links, runStatus>>

webVars == <<items, pageVars>>

\* the variables of the calls of the conversion functions
rowVars == <<item, mappingList, row, tagsSet, amountStr, numVal, attributeColumns, call, exported>>

\* no request is handled and the page has not started a run
WebIdle ==
  /\ items = <<>>
  /\ timer = "none"
  /\ clock = 0
  /\ sent = 0
  /\ inFlight = {}
  /\ progress = <<>>
  /\ links = <<>>
  /\ runStatus = <<>>

(***************************************************************************)
(* JavaScript values                                                       *)
(***************************************************************************)
Undef == [t |-> "undef"]
Null == [t |-> "null"]
Bool(b) == [t |-> "bool", b |-> b]
Str(s) == [t |-> "str", s |-> s]
Num(n) == [t |-> "num", n |-> n]
Arr(a) == [t |-> "arr", a |-> a]
Obj(o) == [t |-> "obj", o |-> o]

IsNullish(v) == v.t \in {"undef", "null"}
\* typeof v === 'object' (true of null, arrays and objects)
TypeofObject(v) == v.t \in {"null", "arr", "obj"}
IsArray(v) == v.t = "arr"

\* ToBoolean
Truthy(v) ==
  CASE v.t = "undef" -> FALSE
    [] v.t = "null" -> FALSE
    [] v.t = "bool" -> v.b
    [] v.t = "str" -> Len(v.s) > 0
    [] v.t = "num" -> v.n # 0
    [] OTHER -> TRUE

\* a || b
OrElse(a, b) == IF Truthy(a) THEN a ELSE b
\* a ?? b
Coalesce(a, b) == IF IsNullish(a) THEN b ELSE a

(***************************************************************************)
(* Characters and strings                                                  *)
(***************************************************************************)
Digits == <<"0","1","2","3","4","5","6","7","8","9">>
LowerAZ == <<"a","b","c","d","e","f","g","h","i","j","k","l","m","n","o","p","q","r","s","t","u","v","w","x","y","z">>
UpperAZ == <<"A","B","C","D","E","F","G","H","I","J","K","L","M","N","O","P","Q","R","S","T","U","V","W","X","Y","Z">>
Euro == "U+20AC"
Pound == "U+00A3"
Dollar == <<"$">>[1]

Range(s) == {s[i] : i \in 1..Len(s)}
IsDigit(c) == c \in Range(Digits)
IsLower(c) == c \in Range(LowerAZ)
IsUpper(c) == c \in Range(UpperAZ)
IsLetter(c) == IsLower(c) \/ IsUpper(c)
\* the regular expression class \s, and the characters trim() removes
IsSpace(c) == c \in {" ", "\t", "\n", "\r"}

PosIn(s, c) == CHOOSE i \in 1..Len(s) : s[i] = c
DigitVal(c) == PosIn(Digits, c) - 1
ToLowerChar(c) == IF IsUpper(c) THEN LowerAZ[PosIn(UpperAZ, c)] ELSE c
ToLowerCase(s) == [i \in 1..Len(s) |-> ToLowerChar(s[i])]

RECURSIVE FirstNonSpace(_, _)
FirstNonSpace(s, i) ==
  IF i > Len(s) THEN i
  ELSE IF IsSpace(s[i]) THEN FirstNonSpace(s, i + 1) ELSE i

RECURSIVE LastNonSpace(_, _)
LastNonSpace(s, j) ==
  IF j < 1 THEN 0
  ELSE IF IsSpace(s[j]) THEN LastNonSpace(s, j - 1) ELSE j

\* String.prototype.trim
Trim(s) ==
  LET i == FirstNonSpace(s, 1)
      j == LastNonSpace(s, Len(s))
  IN IF i > j THEN <<>> ELSE SubSeq(s, i, j)

StartsWith(s, p) == Len(p) <= Len(s) /\ SubSeq(s, 1, Len(p)) = p
\* String.prototype.includes
Includes(s, p) == \E i \in 1..(Len(s) - Len(p) + 1) : SubSeq(s, i, i + Len(p) - 1) = p
HasChar(s, c) == \E i \in 1..Len(s) : s[i] = c
\* String.prototype.indexOf for one character, 1-based, 0 when absent
IndexOf(s, c) == IF HasChar(s, c) THEN CHOOSE i \in 1..Len(s) : s[i] = c /\ \A j \in 1..(i - 1) : s[j] # c ELSE 0

RECURSIVE Join(_, _)
\* Array.prototype.join of a tuple of strings
Join(ss, sep) ==
  IF Len(ss) = 0 THEN <<>>
  ELSE IF Len(ss) = 1 THEN ss[1]
  ELSE ss[1] \o sep \o Join(Tail(ss), sep)

RECURSIVE Concat(_)
Concat(ss) == IF Len(ss) = 0 THEN <<>> ELSE ss[1] \o Concat(Tail(ss))

\* the j-th smallest member of a set of numbers
NthSmallest(P, j) == CHOOSE p \in P : Cardinality({q \in P : q < p}) = j - 1

\* the position of the j-th member of P, 0 before the first and past the
\* end of s after the last
CutAt(s, P, j) == IF j = 0 THEN 0 ELSE IF j > Cardinality(P) THEN Len(s) + 1 ELSE NthSmallest(P, j)

\* String.prototype.split on one character of the set seps: the pieces
\* between separators, empty pieces included
Split(s, seps) ==
  LET P == {i \in 1..Len(s) : s[i] \in seps}
  IN [j \in 1..(Cardinality(P) + 1) |-> SubSeq(s, CutAt(s, P, j - 1) + 1, CutAt(s, P, j) - 1)]

\* s.split(/\s+/)[0]: the text before the first white space
FirstToken(s) ==
  IF \E i \in 1..Len(s) : IsSpace(s[i])
  THEN SubSeq(s, 1, (CHOOSE i \in 1..Len(s) : IsSpace(s[i]) /\ \A j \in 1..(i - 1) : ~IsSpace(s[j])) - 1)
  ELSE s

SelectSeqNonEmpty(ss) == SelectSeq(ss, LAMBDA x : Len(x) > 0)

RECURSIVE NatToStr(_)
NatToStr(n) == IF n < 10 THEN <<Digits[n + 1]>> ELSE NatToStr(n \div 10) \o <<Digits[(n % 10) + 1]>>
\* Number.prototype.toString of an integer
IntToStr(n) == IF n < 0 THEN <<"-">> \o NatToStr(-n) ELSE NatToStr(n)

RECURSIVE ToStr(_)
\* String(v)
ToStr(v) ==
  CASE v.t = "undef" -> <<"u","n","d","e","f","i","n","e","d">>
    [] v.t = "null" -> <<"n","u","l","l">>
    [] v.t = "bool" -> IF v.b THEN <<"t","r","u","e">> ELSE <<"f","a","l","s","e">>
    [] v.t = "str" -> v.s
    [] v.t = "num" -> IntToStr(v.n)
    [] v.t = "arr" -> Join([i \in 1..Len(v.a) |-> IF IsNullish(v.a[i]) THEN <<>> ELSE ToStr(v.a[i])], <<",">>)
    [] OTHER -> <<"[","o","b","j","e","c","t"," ","O","b","j","e","c","t","]">>

(***************************************************************************)
(* Objects: tuples of <<key, value>> entries in insertion order            *)
(***************************************************************************)
HasKey(o, k) == \E i \in 1..Len(o) : o[i][1] = k
KeyIndex(o, k) == CHOOSE i \in 1..Len(o) : o[i][1] = k
\* o[k], undefined when the key is absent
GetKey(o, k) == IF HasKey(o, k) THEN o[KeyIndex(o, k)][2] ELSE Undef
\* o[k] = v: an existing key keeps its place
SetKey(o, k, v) ==
  IF HasKey(o, k) THEN [o EXCEPT ![KeyIndex(o, k)] = <<k, v>>] ELSE Append(o, <<k, v>>)
\* delete o[k]
DeleteKey(o, k) == SelectSeq(o, LAMBDA e : e[1] # k)
Keys(o) == [i \in 1..Len(o) |-> o[i][1]]
KeySet(o) == {o[i][1] : i \in 1..Len(o)}

\* v.k for a JavaScript value v that is not null or undefined: own
\* properties of objects; strings, numbers, booleans and arrays have none
\* of the property names the program reads
Prop(v, k) == IF v.t = "obj" THEN GetKey(v.o, k) ELSE Undef
\* Object.prototype.hasOwnProperty.call(v, k) for v not null or undefined
HasOwn(v, k) == v.t = "obj" /\ HasKey(v.o, k)

(***************************************************************************)
(* JSON.parse and JSON.stringify.  The grammar covers white space, null,   *)
(* true, false, integers, strings without escape sequences, arrays and     *)
(* objects; the inputs of the model stay inside it.                        *)
(***************************************************************************)
JFail == [ok |-> FALSE, v |-> Undef, i |-> 0]
JOk(v, i) == [ok |-> TRUE, v |-> v, i |-> i]
Quote == "\""

RECURSIVE SkipDigits(_, _)
SkipDigits(s, i) == IF i <= Len(s) /\ IsDigit(s[i]) THEN SkipDigits(s, i + 1) ELSE i

RECURSIVE DigitsToNat(_)
DigitsToNat(ds) == IF Len(ds) = 0 THEN 0 ELSE DigitsToNat(SubSeq(ds, 1, Len(ds) - 1)) * 10 + DigitVal(ds[Len(ds)])

RECURSIVE SkipToQuote(_, _)
SkipToQuote(s, i) == IF i > Len(s) THEN 0 ELSE IF s[i] = Quote THEN i ELSE IF s[i] = "\\" THEN 0 ELSE SkipToQuote(s, i + 1)

JLiteral(s, i, word, v) ==
  IF i + Len(word) - 1 <= Len(s) /\ SubSeq(s, i, i + Len(word) - 1) = word
  THEN JOk(v, i + Len(word)) ELSE JFail

JNumber(s, i) ==
  LET neg == s[i] = "-"
      d == IF neg THEN i + 1 ELSE i
      e == SkipDigits(s, d)
  IN IF e = d THEN JFail
     ELSE IF e - d > 1 /\ s[d] = "0" THEN JFail
     ELSE IF e <= Len(s) /\ s[e] \in {".", "e", "E"} THEN JFail
     ELSE JOk(Num(IF neg THEN -DigitsToNat(SubSeq(s, d, e - 1)) ELSE DigitsToNat(SubSeq(s, d, e - 1))), e)

JString(s, i) ==
  LET q == SkipToQuote(s, i + 1)
  IN IF q = 0 THEN JFail ELSE JOk(Str(SubSeq(s, i + 1, q - 1)), q + 1)

RECURSIVE JValue(_, _)
RECURSIVE JElems(_, _, _)
RECURSIVE JMembers(_, _, _)

JValue(s, i0) ==
  LET i == FirstNonSpace(s, i0)
  IN IF i > Len(s) THEN JFail
     ELSE CASE s[i] = "n" -> JLiteral(s, i, <<"n","u","l","l">>, Null)
            [] s[i] = "t" -> JLiteral(s, i, <<"t","r","u","e">>, Bool(TRUE))
            [] s[i] = "f" -> JLiteral(s, i, <<"f","a","l","s","e">>, Bool(FALSE))
            [] s[i] = Quote -> JString(s, i)
            [] s[i] = "-" \/ IsDigit(s[i]) -> JNumber(s, i)
            [] s[i] = "[" ->
                 LET j == FirstNonSpace(s, i + 1)
                 IN IF j <= Len(s) /\ s[j] = "]" THEN JOk(Arr(<<>>), j + 1) ELSE JElems(s, j, <<>>)
            [] s[i] = "{" ->
                 LET j == FirstNonSpace(s, i + 1)
                 IN IF j <= Len(s) /\ s[j] = "}" THEN JOk(Obj(<<>>), j + 1) ELSE JMembers(s, j, <<>>)
            [] OTHER -> JFail

JElems(s, i, acc) ==
  LET r == JValue(s, i)
  IN IF ~r.ok THEN JFail
     ELSE LET k == FirstNonSpace(s, r.i)
          IN IF k > Len(s) THEN JFail
             ELSE IF s[k] = "," THEN JElems(s, k + 1, Append(acc, r.v))
             ELSE IF s[k] = "]" THEN JOk(Arr(Append(acc, r.v)), k + 1)
             ELSE JFail

JMembers(s, i0, acc) ==
  LET i == FirstNonSpace(s, i0)
  IN IF i > Len(s) \/ s[i] # Quote THEN JFail
     ELSE LET key == JString(s, i)
          IN IF ~key.ok THEN JFail
             ELSE LET c == FirstNonSpace(s, key.i)
                  IN IF c > Len(s) \/ s[c] # ":" THEN JFail
                     ELSE LET r == JValue(s, c + 1)
                          IN IF ~r.ok THEN JFail
                             ELSE LET k == FirstNonSpace(s, r.i)
                                      o == SetKey(acc, key.v.s, r.v)
                                  IN IF k > Len(s) THEN JFail
                                     ELSE IF s[k] = "," THEN JMembers(s, k + 1, o)
                                     ELSE IF s[k] = "}" THEN JOk(Obj(o), k + 1)
                                     ELSE JFail

\* the value r read from the start of s is the whole of s
JWhole(s, r) == IF r.ok /\ FirstNonSpace(s, r.i) > Len(s) THEN r ELSE JFail

\* JSON.parse: ok is FALSE where JSON.parse throws a SyntaxError
JSONParse(s) == JWhole(s, JValue(s, 1))

\* the text of a string inside a JSON string literal: a backslash before
\* every quote and backslash
Escaped(s) ==
  LET special(i) == s[i] \in {Quote, "\\"}
      start(i) == i + Cardinality({j \in 1..(i - 1) : special(j)})
      src(k) == CHOOSE i \in 1..Len(s) : start(i) <= k /\ k <= start(i) + (IF special(i) THEN 1 ELSE 0)
  IN IF \A i \in 1..Len(s) : ~special(i) THEN s
     ELSE [k \in 1..(Len(s) + Cardinality({j \in 1..Len(s) : special(j)})) |->
            IF special(src(k)) /\ k = start(src(k)) THEN "\\" ELSE s[src(k)]]

RECURSIVE JSONStringify(_)
\* JSON.stringify of a value that is not undefined
JSONStringify(v) ==
  CASE v.t = "null" -> <<"n","u","l","l">>
    [] v.t = "undef" -> <<"n","u","l","l">>
    [] v.t = "bool" -> ToStr(v)
    [] v.t = "num" -> IntToStr(v.n)
    [] v.t = "str" ->
         <<Quote>> \o Escaped(v.s) \o <<Quote>>
    [] v.t = "arr" ->
         <<"[">> \o Join([i \in 1..Len(v.a) |-> JSONStringify(v.a[i])], <<",">>) \o <<"]">>
    [] OTHER ->
         LET kept == SelectSeq(v.o, LAMBDA e : e[2].t # "undef")
         IN <<"{">> \o Join([i \in 1..Len(kept) |->
               JSONStringify(Str(kept[i][1])) \o <<":">> \o JSONStringify(kept[i][2])], <<",">>) \o <<"}">>

(***************************************************************************)
(* safeParseMaybeList                                                      *)
(***************************************************************************)
\* a split whose separator takes the white space on both of its sides
SplitTrimmed(s) == [j \in 1..Len(Split(s, {";", ","})) |-> Trim(Split(s, {";", ","})[j])]

\* str.split(/[;,]\s*/): a separator is ';' or ',' with the white space
\* that follows it
SplitDelims(s) ==
  LET P == {i \in 1..Len(s) : s[i] \in {";", ","}}
  IN [j \in 1..(Cardinality(P) + 1) |->
       SubSeq(s, IF j = 1 THEN 1 ELSE FirstNonSpace(s, CutAt(s, P, j - 1) + 1), CutAt(s, P, j) - 1)]

StrList(ss) == [i \in 1..Len(ss) |-> Str(ss[i])]

\* the list for the trimmed text str, parsed the outcome of JSON.parse(str)
listOfParsed(str, parsed) ==
  IF Len(str) = 0 THEN <<>>
  ELSE IF parsed.ok
    THEN IF IsArray(parsed.v) THEN parsed.v.a
         ELSE IF Truthy(parsed.v) /\ TypeofObject(parsed.v) THEN <<parsed.v>>
         ELSE <<>>
    ELSE IF HasChar(str, ";") \/ HasChar(str, ",")
      THEN StrList(SelectSeqNonEmpty(SplitDelims(str)))
      ELSE <<Str(str)>>

listOfText(str) == listOfParsed(str, JSONParse(str))

\* the tuple of the elements of the returned array
safeParseMaybeList(value) ==
  IF IsNullish(value) THEN <<>>
  ELSE IF IsArray(value) THEN value.a
  ELSE listOfText(Trim(ToStr(value)))

(***************************************************************************)
(* Natural numbers of any size: tuples of limbs, least significant first,  *)
(* without leading zero limbs (zero is the empty tuple).                   *)
(***************************************************************************)
Base == 2 ^ 15

RECURSIVE BitLenNat(_)
BitLenNat(n) == IF n = 0 THEN 0 ELSE 1 + BitLenNat(n \div 2)

LimbBits == BitLenNat(Base - 1)

Limb(x, i) == IF i <= Len(x) THEN x[i] ELSE 0

RECURSIVE BNorm(_)
BNorm(x) == IF Len(x) > 0 /\ x[Len(x)] = 0 THEN BNorm(SubSeq(x, 1, Len(x) - 1)) ELSE x

RECURSIVE BFromNat(_)
BFromNat(n) == IF n = 0 THEN <<>> ELSE <<n % Base>> \o BFromNat(n \div Base)

RECURSIVE BToNat(_)
\* defined for values below 2^31
BToNat(x) == IF Len(x) = 0 THEN 0 ELSE x[1] + Base * BToNat(Tail(x))

RECURSIVE BAddC(_, _, _, _)
BAddC(x, y, i, c) ==
  IF i > Len(x) /\ i > Len(y) THEN (IF c = 0 THEN <<>> ELSE <<c>>)
  ELSE LET s == Limb(x, i) + Limb(y, i) + c
       IN <<s % Base>> \o BAddC(x, y, i + 1, s \div Base)

BAdd(x, y) == BAddC(x, y, 1, 0)

RECURSIVE BSubC(_, _, _, _)
BSubC(x, y, i, b) ==
  IF i > Len(x) THEN <<>>
  ELSE LET s == x[i] - Limb(y, i) - b
       IN IF s < 0 THEN <<s + Base>> \o BSubC(x, y, i + 1, 1)
          ELSE <<s>> \o BSubC(x, y, i + 1, 0)

\* x - y for x >= y
BSub(x, y) == BNorm(BSubC(x, y, 1, 0))

RECURSIVE BCmpFrom(_, _, _)
BCmpFrom(x, y, i) ==
  IF i = 0 THEN 0
  ELSE IF x[i] < y[i] THEN -1
  ELSE IF x[i] > y[i] THEN 1
  ELSE BCmpFrom(x, y, i - 1)

\* -1, 0 or 1 as x is below, equal to or above y
BCmp(x, y) ==
  IF Len(x) < Len(y) THEN -1
  ELSE IF Len(x) > Len(y) THEN 1
  ELSE BCmpFrom(x, y, Len(x))

RECURSIVE BMulSmallC(_, _, _, _)
BMulSmallC(x, k, i, c) ==
  IF i > Len(x) THEN (IF c = 0 THEN <<>> ELSE <<c>>)
  ELSE LET s == x[i] * k + c
       IN <<s % Base>> \o BMulSmallC(x, k, i + 1, s \div Base)

\* x * k for 0 <= k < Base
BMulSmall(x, k) == IF k = 0 THEN <<>> ELSE BMulSmallC(x, k, 1, 0)

RECURSIVE BMulFrom(_, _, _)
BMulFrom(x, y, j) ==
  IF j > Len(y) THEN <<>>
  ELSE LET rest == BMulFrom(x, y, j + 1)
       IN BAdd(BMulSmall(x, y[j]), IF Len(rest) = 0 THEN <<>> ELSE <<0>> \o rest)

BMul(x, y) == BNorm(BMulFrom(x, y, 1))

RECURSIVE BDivSmallFrom(_, _, _, _)
\* limbs 1..i of x \div k, rem the remainder of the limbs above i
BDivSmallFrom(x, k, i, rem) ==
  IF i = 0 THEN <<>>
  ELSE LET cur == rem * Base + x[i]
       IN BDivSmallFrom(x, k, i - 1, cur % k) \o <<cur \div k>>

\* x \div k for 0 < k <= Base
BDivSmall(x, k) == BNorm(BDivSmallFrom(x, k, Len(x), 0))

BBitLen(x) == IF Len(x) = 0 THEN 0 ELSE LimbBits * (Len(x) - 1) + BitLenNat(x[Len(x)])
\* bit i of x, bit 0 the least significant
BBit(x, i) == (Limb(x, (i \div LimbBits) + 1) \div (2 ^ (i % LimbBits))) % 2
BIsOdd(x) == Len(x) > 0 /\ x[1] % 2 = 1

Zeros(n) == [i \in 1..n |-> 0]
\* x * 2^n
BShl(x, n) ==
  IF Len(x) = 0 THEN <<>>
  ELSE Zeros(n \div LimbBits) \o BMulSmall(x, 2 ^ (n % LimbBits))
\* x \div 2^n
BShr(x, n) ==
  IF n \div LimbBits >= Len(x) THEN <<>>
  ELSE BDivSmall(SubSeq(x, (n \div LimbBits) + 1, Len(x)), 2 ^ (n % LimbBits))
\* x % 2^n for n < LimbBits
BLowBits(x, n) == Limb(x, 1) % (2 ^ n)

\* quotient and remainder qr with the remainder doubled and a bit added, r2
BDivBitFrom(d, qr, r2) ==
  IF BCmp(r2, d) >= 0
  THEN [q |-> BAdd(BMulSmall(qr.q, 2), <<1>>), r |-> BSub(r2, d)]
  ELSE [q |-> BMulSmall(qr.q, 2), r |-> r2]

\* one step of binary long division: bit i-1 of n is brought down
BDivBit(n, d, i, qr) == BDivBitFrom(d, qr, BAdd(BMulSmall(qr.r, 2), BFromNat(BBit(n, i - 1))))

RECURSIVE BDivStep(_, _, _, _)
\* binary long division: bits i-1 .. 0 of n are still to be brought down,
\* four at a time while four are left
BDivStep(n, d, i, qr) ==
  IF Len(qr.q) + Len(qr.r) < 0 \/ i = 0 THEN qr
  ELSE IF i >= 4
    THEN BDivStep(n, d, i - 4,
                  BDivBit(n, d, i - 3, BDivBit(n, d, i - 2, BDivBit(n, d, i - 1, BDivBit(n, d, i, qr)))))
  ELSE BDivStep(n, d, i - 1, BDivBit(n, d, i, qr))

\* the division of the bits low bits of n, the bits above them the first
\* remainder
BDivModLow(n, d, bits) == BDivStep(n, d, bits, [q |-> <<>>, r |-> BShr(n, bits)])

\* quotient and remainder of n by d > 0: the leading bits of n that are
\* fewer than those of d are below d
BDivMod(n, d) ==
  BDivModLow(n, d, BBitLen(n) - (IF BBitLen(d) = 0 THEN 0
                                 ELSE IF BBitLen(n) < BBitLen(d) - 1 THEN BBitLen(n)
                                 ELSE BBitLen(d) - 1))

RECURSIVE BFromDigits(_)
\* the number written by a tuple of decimal digits
BFromDigits(ds) ==
  IF Len(ds) = 0 THEN <<>>
  ELSE BAdd(BMulSmall(BFromDigits(SubSeq(ds, 1, Len(ds) - 1)), 10), BFromNat(DigitVal(ds[Len(ds)])))

RECURSIVE BPow10(_)
BPow10(k) == IF k = 0 THEN <<1>> ELSE BMulSmall(BPow10(k - 1), 10)

(***************************************************************************)
(* IEEE-754 binary64 numbers that are not negative: m * 2^e with m below   *)
(* 2^53 + 1, or NaN.  Every operation rounds the exact result to 53        *)
(* significant bits, ties to even.                                          *)
(***************************************************************************)
MantBits == 53
NaN == [nan |-> TRUE, m |-> <<>>, e |-> 0]
Dbl(m, e) == [nan |-> FALSE, m |-> m, e |-> e]

\* hi * 2^e with the bits low cut off below it, half the weight of the
\* first of them, rounded to nearest, ties to even
RoundBits(hi, low, half, inexact, e) ==
  Dbl(IF low > half \/ (low = half /\ (inexact \/ BIsOdd(hi))) THEN BAdd(hi, <<1>>) ELSE hi, e)

\* the quotient qr.q of MantBits + k bits, times 2^e, rounded to MantBits bits
RoundQuot(qr, k, e) ==
  RoundBits(BShr(qr.q, k), BLowBits(qr.q, k), 2 ^ (k - 1), Len(qr.r) > 0, e + k)

RoundDivided(qr, e) == RoundQuot(qr, BBitLen(qr.q) - MantBits, e)

RoundShifted(n, d, sh, e0) ==
  RoundDivided(BDivMod(IF sh >= 0 THEN BShl(n, sh) ELSE n, IF sh >= 0 THEN d ELSE BShl(d, -sh)), e0 - sh)

\* the binary64 number nearest to (n / d) * 2^e0
RoundRat(n, d, e0) ==
  IF Len(n) = 0 THEN Dbl(<<>>, 0)
  ELSE RoundShifted(n, d, (MantBits + 2) + BBitLen(d) - BBitLen(n), e0)

\* a numeric literal of the source, e.g. 1.21 = DblLit(121, 100)
DblLit(n, d) == RoundRat(BFromNat(n), BFromNat(d), 0)
DblMul(x, y) == IF x.nan \/ y.nan THEN NaN ELSE RoundRat(BMul(x.m, y.m), <<1>>, x.e + y.e)
\* x / y for y > 0
DblDiv(x, y) == IF x.nan \/ y.nan THEN NaN ELSE RoundRat(x.m, y.m, x.e - y.e)
DblAdd(x, y) ==
  IF x.nan \/ y.nan THEN NaN
  ELSE LET e == IF x.e < y.e THEN x.e ELSE y.e
       IN RoundRat(BAdd(BShl(x.m, x.e - e), BShl(y.m, y.e - e)), <<1>>, e)

\* x < n and x > 0 for the exact values
DblLessNat(x, n) ==
  ~x.nan /\ (IF x.e >= 0 THEN BCmp(BShl(x.m, x.e), BFromNat(n)) < 0
             ELSE BCmp(x.m, BShl(BFromNat(n), -x.e)) < 0)
DblPositive(x) == ~x.nan /\ Len(x.m) > 0

\* Math.round(x) for x >= 0: floor(x + 1/2), exactly
MathRound(x) ==
  IF x.e >= 0 THEN BShl(x.m, x.e)
  ELSE BShr(BAdd(x.m, BShl(<<1>>, -x.e - 1)), -x.e)

RECURSIVE BToDigits(_)
\* the decimal digits of x, empty for zero
BToDigits(x) ==
  IF Len(x) = 0 THEN <<>>
  ELSE LET q == BDivSmall(x, 10)
       IN Append(BToDigits(q), Digits[BToNat(BSub(x, BMulSmall(q, 10))) + 1])

\* Number.prototype.toString of cents / 100: at most two decimals, no
\* trailing zero
FormatParts(int, d1, d2) ==
  IF d1 = "0" /\ d2 = "0" THEN int
  ELSE IF d2 = "0" THEN int \o <<".", d1>>
  ELSE int \o <<".", d1, d2>>

\* pad: the digits of the cents, three at least
FormatPadded(pad) == FormatParts(SubSeq(pad, 1, Len(pad) - 2), pad[Len(pad) - 1], pad[Len(pad)])

PadCents(ds) == IF Len(ds) >= 3 THEN ds ELSE SubSeq(<<"0","0","0">>, 1, 3 - Len(ds)) \o ds

FormatCents(c) == FormatPadded(PadCents(BToDigits(c)))

\* parseFloat of a string of digits and dots, NaN when no number starts it
ParseParts(int, frac) ==
  IF Len(int) = 0 /\ Len(frac) = 0 THEN NaN
  ELSE RoundRat(BFromDigits(int \o frac), BPow10(Len(frac)), 0)

\* the digits end before position i, the fraction before position j
ParseBetween(s, i, j) == ParseParts(SubSeq(s, 1, i - 1), IF j > i THEN SubSeq(s, i + 1, j - 1) ELSE <<>>)

ParseFrom(s, i) == ParseBetween(s, i, IF i <= Len(s) /\ s[i] = "." THEN SkipDigits(s, i + 1) ELSE i)

ParseFloat(s) == ParseFrom(s, SkipDigits(s, 1))

(***************************************************************************)
(* Translation and rename tables, as objects                               *)
(***************************************************************************)
ATTR_TRANSLATIONS ==
  << <<<<"V","e","h","i","c","l","e"," ","c","o","n","d","i","t","i","o","n">>, <<"S","t","a","r","e"," ","v","e","h","i","c","u","l">>>>,
     <<<<"C","a","t","e","g","o","r","y">>, <<"C","a","t","e","g","o","r","i","e">>>>,
     <<<<"M","o","d","e","l"," ","r","a","n","g","e">>, <<"G","a","m","U+0103"," ","m","o","d","e","l">>>>,
     <<<<"T","r","i","m"," ","l","i","n","e">>, <<"N","i","v","e","l"," ","e","c","h","i","p","a","r","e">>>>,
     <<<<"V","e","h","i","c","l","e"," ","N","u","m","b","e","r">>, <<"N","u","m","U+0103","r"," ","v","e","h","i","c","u","l">>>>,
     <<<<"A","v","a","i","l","a","b","i","l","i","t","y">>, <<"D","i","s","p","o","n","i","b","i","l","i","t","a","t","e">>>>,
     <<<<"O","r","i","g","i","n">>, <<"O","r","i","g","i","n","e">>>>,
     <<<<"M","i","l","e","a","g","e">>, <<"K","i","l","o","m","e","t","r","a","j">>>>,
     <<<<"C","u","b","i","c"," ","C","a","p","a","c","i","t","y">>, <<"C","a","p","a","c","i","t","a","t","e"," ","c","i","l","i","n","d","r","i","c","U+0103">>>>,
     <<<<"P","o","w","e","r">>, <<"P","u","t","e","r","e">>>>,
     <<<<"D","r","i","v","e"," ","t","y","p","e">>, <<"T","i","p"," ","t","r","a","c","U+021B","i","u","n","e">>>>,
     <<<<"F","u","e","l">>, <<"C","o","m","b","u","s","t","i","b","i","l">>>>,
     <<<<"N","u","m","b","e","r"," ","o","f"," ","S","e","a","t","s">>, <<"N","u","m","U+0103","r"," ","d","e"," ","l","o","c","u","r","i">>>>,
     <<<<"D","o","o","r"," ","C","o","u","n","t">>, <<"N","u","m","U+0103","r"," ","u","U+0219","i">>>>,
     <<<<"S","l","i","d","i","n","g"," ","d","o","o","r">>, <<"U","U+0219","U+0103"," ","c","u","l","i","s","a","n","t","U+0103">>>>,
     <<<<"T","r","a","n","s","m","i","s","s","i","o","n">>, <<"T","r","a","n","s","m","i","s","i","e">>>>,
     <<<<"E","m","i","s","s","i","o","n"," ","C","l","a","s","s">>, <<"C","l","a","s","U+0103"," ","d","e"," ","e","m","i","s","i","i">>>>,
     <<<<"E","m","i","s","s","i","o","n","s"," ","S","t","i","c","k","e","r">>, <<"E","t","i","c","h","e","t","U+0103"," ","e","m","i","s","i","i">>>>,
     <<<<"F","i","r","s","t"," ","R","e","g","i","s","t","r","a","t","i","o","n">>, <<"P","r","i","m","a"," ","U+00EE","n","m","a","t","r","i","c","u","l","a","r","e">>>>,
     <<<<"N","u","m","b","e","r"," ","o","f"," ","V","e","h","i","c","l","e"," ","O","w","n","e","r","s">>, <<"N","u","m","U+0103","r"," ","d","e"," ","p","r","o","p","r","i","e","t","a","r","i">>>>,
     <<<<"H","U">>, <<"I","T","P">>>>,
     <<<<"C","l","i","m","a","t","i","s","a","t","i","o","n">>, <<"C","l","i","m","a","t","i","z","a","r","e">>>>,
     <<<<"P","a","r","k","i","n","g"," ","s","e","n","s","o","r","s">>, <<"S","e","n","z","o","r","i"," ","p","a","r","c","a","r","e">>>>,
     <<<<"A","i","r","b","a","g","s">>, <<"A","i","r","b","a","g","u","r","i">>>>,
     <<<<"C","o","l","o","u","r"," ","(","M","a","n","u","f","a","c","t","u","r","e","r",")">>, <<"C","u","l","o","a","r","e"," ","(","p","r","o","d","u","c","U+0103","t","o","r",")">>>>,
     <<<<"C","o","l","o","u","r">>, <<"C","u","l","o","a","r","e">>>>,
     <<<<"I","n","t","e","r","i","o","r"," ","D","e","s","i","g","n">>, <<"D","e","s","i","g","n"," ","i","n","t","e","r","i","o","r">>>>,
     <<<<"E","n","e","r","g","y"," ","c","o","n","s","u","m","p","t","i","o","n"," ","(","c","o","m","b",".",")">>, <<"C","o","n","s","u","m"," ","d","e"," ","e","n","e","r","g","i","e"," ","(","c","o","m","b",".",")">>>>,
     <<<<"C","O","U+2082"," ","e","m","i","s","s","i","o","n","s"," ","(","c","o","m","b",".",")">>, <<"E","m","i","s","i","i"," ","C","O","U+2082"," ","(","c","o","m","b",".",")">>>>,
     <<<<"T","r","a","i","l","e","r"," ","l","o","a","d"," ","b","r","a","k","e","d">>, <<"S","a","r","c","i","n","U+0103"," ","r","e","m","o","r","c","U+0103"," ","f","r","U+00E2","n","a","t","U+0103">>>>,
     <<<<"T","r","a","i","l","e","r"," ","l","o","a","d"," ","u","n","b","r","a","k","e","d">>, <<"S","a","r","c","i","n","U+0103"," ","r","e","m","o","r","c","U+0103"," ","n","e","f","r","U+00E2","n","a","t","U+0103">>>>,
     <<<<"W","e","i","g","h","t">>, <<"G","r","e","u","t","a","t","e">>>>,
     <<<<"L","a","s","t"," ","s","e","r","v","i","c","e"," ","(","m","i","l","e","a","g","e",")">>, <<"U","l","t","i","m","u","l"," ","s","e","r","v","i","c","e"," ","(","k","i","l","o","m","e","t","r","a","j",")">>>>,
     <<<<"C","y","l","i","n","d","e","r","s">>, <<"C","i","l","i","n","d","r","i">>>>,
     <<<<"T","a","n","k"," ","c","a","p","a","c","i","t","y">>, <<"C","a","p","a","c","i","t","a","t","e"," ","r","e","z","e","r","v","o","r">>>> >>

FEATURE_TRANSLATIONS ==
  << <<<<"A","B","S">>, <<"A","B","S">>>>,
     <<<<"A","d","a","p","t","i","v","e"," ","C","r","u","i","s","e"," ","C","o","n","t","r","o","l">>, <<"C","o","n","t","r","o","l"," ","a","d","a","p","t","i","v"," ","a","l"," ","v","i","t","e","z","e","i">>>>,
     <<<<"A","d","a","p","t","i","v","e"," ","l","i","g","h","t","i","n","g">>, <<"I","l","u","m","i","n","a","r","e"," ","a","d","a","p","t","i","v","U+0103">>>>,
     <<<<"A","l","a","r","m"," ","s","y","s","t","e","m">>, <<"S","i","s","t","e","m"," ","d","e"," ","a","l","a","r","m","U+0103">>>>,
     <<<<"A","l","l","o","y"," ","w","h","e","e","l","s">>, <<"J","a","n","t","e"," ","d","i","n"," ","a","l","i","a","j">>>>,
     <<<<"A","r","m"," ","r","e","s","t">>, <<"C","o","t","i","e","r","U+0103">>>>,
     <<<<"B","i","-","x","e","n","o","n"," ","h","e","a","d","l","i","g","h","t","s">>, <<"F","a","r","u","r","i"," ","b","i","-","x","e","n","o","n">>>>,
     <<<<"B","l","u","e","t","o","o","t","h">>, <<"B","l","u","e","t","o","o","t","h">>>>,
     <<<<"C","a","r","g","o"," ","b","a","r","r","i","e","r">>, <<"B","a","r","i","e","r","U+0103"," ","p","e","n","t","r","u"," ","b","a","g","a","j","e">>>>,
     <<<<"C","D"," ","p","l","a","y","e","r">>, <<"C","D"," ","p","l","a","y","e","r">>>>,
     <<<<"C","e","n","t","r","a","l"," ","l","o","c","k","i","n","g">>, <<"U+00CE","n","c","h","i","d","e","r","e"," ","c","e","n","t","r","a","l","i","z","a","t","U+0103">>>>,
     <<<<"C","r","u","i","s","e"," ","c","o","n","t","r","o","l">>, <<"P","i","l","o","t"," ","a","u","t","o","m","a","t">>>>,
     <<<<"D","i","s","t","a","n","c","e"," ","w","a","r","n","i","n","g"," ","s","y","s","t","e","m">>, <<"S","i","s","t","e","m"," ","a","v","e","r","t","i","z","a","r","e"," ","d","i","s","t","a","n","U+021B","U+0103">>>>,
     <<<<"E","l","e","c","t","r","i","c"," ","s","e","a","t"," ","a","d","j","u","s","t","m","e","n","t">>, <<"R","e","g","l","a","j"," ","e","l","e","c","t","r","i","c"," ","s","c","a","u","n","e">>>>,
     <<<<"E","l","e","c","t","r","i","c"," ","w","i","n","d","o","w","s">>, <<"G","e","a","m","u","r","i"," ","e","l","e","c","t","r","i","c","e">>>>,
     <<<<"E","m","e","r","g","e","n","c","y"," ","b","r","a","k","e"," ","a","s","s","i","s","t">>, <<"A","s","i","s","t","e","n","U+021B","U+0103"," ","f","r","U+00E2","n","a","r","e"," ","d","e"," ","u","r","g","e","n","U+021B","U+0103">>>>,
     <<<<"E","S","P">>, <<"E","S","P">>>>,
     <<<<"F","r","o","n","t"," ","w","h","e","e","l"," ","d","r","i","v","e">>, <<"T","r","a","c","U+021B","i","u","n","e"," ","f","a","U+021B","U+0103">>>>,
     <<<<"H","a","n","d","s","-","f","r","e","e"," ","k","i","t">>, <<"S","e","t"," ","m","U+00E2","i","n","i"," ","l","i","b","e","r","e">>>>,
     <<<<"H","e","a","d","l","i","g","h","t"," ","w","a","s","h","e","r"," ","s","y","s","t","e","m">>, <<"S","i","s","t","e","m"," ","s","p","U+0103","l","a","r","e"," ","f","a","r","u","r","i">>>>,
     <<<<"H","e","a","t","e","d"," ","s","e","a","t","s">>, <<"S","c","a","u","n","e"," ","U+00EE","n","c","U+0103","l","z","i","t","e">>>>,
     <<<<"H","i","l","l","-","s","t","a","r","t"," ","a","s","s","i","s","t">>, <<"A","s","i","s","t","e","n","U+021B","U+0103"," ","l","a"," ","p","o","r","n","i","r","e","a"," ","U+00EE","n"," ","r","a","m","p","U+0103">>>>,
     <<<<"I","m","m","o","b","i","l","i","z","e","r">>, <<"I","m","o","b","i","l","i","z","a","t","o","r">>>>,
     <<<<"I","s","o","f","i","x">>, <<"I","s","o","f","i","x">>>>,
     <<<<"L","e","a","t","h","e","r"," ","s","t","e","e","r","i","n","g"," ","w","h","e","e","l">>, <<"V","o","l","a","n"," ","U+00EE","m","b","r","U+0103","c","a","t"," ","U+00EE","n"," ","p","i","e","l","e">>>>,
     <<<<"L","E","D"," ","r","u","n","n","i","n","g"," ","l","i","g","h","t","s">>, <<"L","u","m","i","n","i"," ","d","e"," ","z","i"," ","L","E","D">>>>,
     <<<<"L","i","g","h","t"," ","s","e","n","s","o","r">>, <<"S","e","n","z","o","r"," ","l","u","m","i","n","U+0103">>>>,
     <<<<"L","u","m","b","a","r"," ","s","u","p","p","o","r","t">>, <<"S","u","p","o","r","t"," ","l","o","m","b","a","r">>>>,
     <<<<"M","a","s","s","a","g","e"," ","s","e","a","t","s">>, <<"S","c","a","u","n","e"," ","m","a","s","a","j">>>>,
     <<<<"M","u","l","t","i","f","u","n","c","t","i","o","n"," ","s","t","e","e","r","i","n","g"," ","w","h","e","e","l">>, <<"V","o","l","a","n"," ","m","u","l","t","i","f","u","n","c","U+021B","i","o","n","a","l">>>>,
     <<<<"N","a","v","i","g","a","t","i","o","n"," ","s","y","s","t","e","m">>, <<"S","i","s","t","e","m"," ","d","e"," ","n","a","v","i","g","a","U+021B","i","e">>>>,
     <<<<"O","n","-","b","o","a","r","d"," ","c","o","m","p","u","t","e","r">>, <<"C","o","m","p","u","t","e","r"," ","d","e"," ","b","o","r","d">>>>,
     <<<<"P","a","n","o","r","a","m","i","c"," ","r","o","o","f">>, <<"P","l","a","f","o","n"," ","p","a","n","o","r","a","m","i","c">>>>,
     <<<<"P","a","s","s","e","n","g","e","r"," ","s","e","a","t"," ","I","s","o","f","i","x"," ","p","o","i","n","t">>, <<"P","u","n","c","t"," ","I","s","o","f","i","x"," ","p","e","n","t","r","u"," ","s","c","a","u","n"," ","p","a","s","a","g","e","r">>>>,
     <<<<"P","o","w","e","r"," ","S","t","e","e","r","i","n","g">>, <<"S","e","r","v","o","d","i","r","e","c","U+021B","i","e">>>>,
     <<<<"R","a","i","n"," ","s","e","n","s","o","r">>, <<"S","e","n","z","o","r"," ","d","e"," ","p","l","o","a","i","e">>>>,
     <<<<"R","o","o","f"," ","r","a","c","k">>, <<"P","o","r","t","b","a","g","a","j"," ","p","e"," ","a","c","o","p","e","r","i","U+0219">>>>,
     <<<<"S","k","i"," ","b","a","g">>, <<"S","a","c"," ","p","e","n","t","r","u"," ","s","c","h","i","u","r","i">>>>,
     <<<<"S","o","u","n","d"," ","s","y","s","t","e","m">>, <<"S","i","s","t","e","m"," ","a","u","d","i","o">>>>,
     <<<<"S","p","e","e","d"," ","l","i","m","i","t"," ","c","o","n","t","r","o","l"," ","s","y","s","t","e","m">>, <<"S","i","s","t","e","m"," ","c","o","n","t","r","o","l"," ","l","i","m","i","t","U+0103"," ","v","i","t","e","z","U+0103">>>>,
     <<<<"S","u","n","r","o","o","f">>, <<"T","r","a","p","U+0103">>>>,
     <<<<"T","i","n","t","e","d"," ","w","i","n","d","o","w","s">>, <<"G","e","a","m","u","r","i"," ","f","u","m","u","r","i","i">>>>,
     <<<<"T","o","u","c","h","s","c","r","e","e","n">>, <<"E","c","r","a","n"," ","t","a","c","t","i","l">>>>,
     <<<<"T","r","a","c","t","i","o","n"," ","c","o","n","t","r","o","l">>, <<"C","o","n","t","r","o","l"," ","t","r","a","c","U+021B","i","u","n","e">>>>,
     <<<<"T","r","a","f","f","i","c"," ","s","i","g","n"," ","r","e","c","o","g","n","i","t","i","o","n">>, <<"R","e","c","u","n","o","a","U+0219","t","e","r","e"," ","i","n","d","i","c","a","t","o","a","r","e">>>>,
     <<<<"T","u","n","e","r","/","r","a","d","i","o">>, <<"R","a","d","i","o">>>>,
     <<<<"T","y","r","e"," ","p","r","e","s","s","u","r","e"," ","m","o","n","i","t","o","r","i","n","g">>, <<"M","o","n","i","t","o","r","i","z","a","r","e"," ","p","r","e","s","i","u","n","e"," ","a","n","v","e","l","o","p","e">>>>,
     <<<<"U","S","B"," ","p","o","r","t">>, <<"P","o","r","t"," ","U","S","B">>>>,
     <<<<"W","i","n","t","e","r"," ","p","a","c","k","a","g","e">>, <<"P","a","c","h","e","t"," ","d","e"," ","i","a","r","n","U+0103">>>> >>

\* a key written twice in the literal holds its last value
VALUE_TRANSLATIONS ==
  << <<<<"U","s","e","d"," ","v","e","h","i","c","l","e">>, <<"V","e","h","i","c","u","l"," ","f","o","l","o","s","i","t">>>>,
     <<<<"A","c","c","i","d","e","n","t","-","f","r","e","e">>, <<"F","U+0103","r","U+0103"," ","a","c","c","i","d","e","n","t">>>>,
     <<<<"S","a","l","o","o","n">>, <<"S","e","d","a","n">>>>,
     <<<<"C","a","b","r","i","o","l","e","t"," ","/"," ","R","o","a","d","s","t","e","r">>, <<"C","a","b","r","i","o","l","e","t"," ","/"," ","R","o","a","d","s","t","e","r">>>>,
     <<<<"E","s","t","a","t","e"," ","c","a","r">>, <<"B","r","e","a","k">>>>,
     <<<<"V","a","n"," ","/"," ","M","i","n","i","b","u","s">>, <<"V","a","n"," ","/"," ","M","i","c","r","o","b","u","z">>>>,
     <<<<"N","o","w">>, <<"A","c","u","m">>>>,
     <<<<"G","e","r","m","a","n"," ","e","d","i","t","i","o","n">>, <<"E","d","i","U+021B","i","e"," ","g","e","r","m","a","n","U+0103">>>>,
     <<<<"I","n","t","e","r","n","a","l"," ","c","o","m","b","u","s","t","i","o","n"," ","e","n","g","i","n","e">>, <<"M","o","t","o","r"," ","c","u"," ","c","o","m","b","u","s","t","i","e"," ","i","n","t","e","r","n","U+0103">>>>,
     <<<<"P","e","t","r","o","l">>, <<"B","e","n","z","i","n","U+0103">>>>,
     <<<<"D","i","e","s","e","l">>, <<"D","i","e","s","e","l">>>>,
     <<<<"P","e","t","r","o","l",","," ","E","1","0","-","e","n","a","b","l","e","d">>, <<"B","e","n","z","i","n","U+0103",","," ","c","o","m","p","a","t","i","b","i","l"," ","E","1","0">>>>,
     <<<<"A","u","t","o","m","a","t","i","c">>, <<"A","u","t","o","m","a","t","U+0103">>>>,
     <<<<"M","a","n","u","a","l"," ","g","e","a","r","b","o","x">>, <<"M","a","n","u","a","l","U+0103">>>>,
     <<<<"M","a","n","u","a","l">>, <<"M","a","n","u","a","l","U+0103">>>>,
     <<<<"A","u","t","o","m","a","t","i","c"," ","c","l","i","m","a","t","i","s","a","t","i","o","n",","," ","2"," ","z","o","n","e","s">>, <<"C","l","i","m","a","t","i","z","a","r","e"," ","a","u","t","o","m","a","t","U+0103",","," ","2"," ","z","o","n","e">>>>,
     <<<<"A","u","t","o","m","a","t","i","c"," ","c","l","i","m","a","t","i","s","a","t","i","o","n",","," ","3"," ","z","o","n","e","s">>, <<"C","l","i","m","a","t","i","z","a","r","e"," ","a","u","t","o","m","a","t","U+0103",","," ","3"," ","z","o","n","e">>>>,
     <<<<"A","u","t","o","m","a","t","i","c"," ","a","i","r"," ","c","o","n","d","i","t","i","o","n","i","n","g">>, <<"A","e","r"," ","c","o","n","d","i","U+021B","i","o","n","a","t"," ","a","u","t","o","m","a","t">>>>,
     <<<<"R","e","a","r",","," ","F","r","o","n","t">>, <<"S","p","a","t","e",","," ","F","a","U+021B","U+0103">>>>,
     <<<<"R","e","a","r",","," ","C","a","m","e","r","a",","," ","F","r","o","n","t">>, <<"S","p","a","t","e",","," ","C","a","m","e","r","U+0103",","," ","F","a","U+021B","U+0103">>>>,
     <<<<"D","r","i","v","e","r"," ","A","i","r","b","a","g">>, <<"A","i","r","b","a","g"," ","U+0219","o","f","e","r">>>>,
     <<<<"F","r","o","n","t"," ","a","n","d"," ","S","i","d","e"," ","A","i","r","b","a","g","s">>, <<"A","i","r","b","a","g","u","r","i"," ","f","r","o","n","t","a","l","e"," ","U+0219","i"," ","l","a","t","e","r","a","l","e">>>>,
     <<<<"F","r","o","n","t"," ","a","n","d"," ","S","i","d","e"," ","a","n","d"," ","M","o","r","e"," ","A","i","r","b","a","g","s">>, <<"A","i","r","b","a","g","u","r","i"," ","f","r","o","n","t","a","l","e",","," ","l","a","t","e","r","a","l","e"," ","U+0219","i"," ","a","l","t","e","l","e">>>>,
     <<<<"P","u","r","e"," ","W","h","i","t","e">>, <<"A","l","b"," ","P","u","r">>>>,
     <<<<"B","l","a","c","k"," ","M","e","t","a","l","l","i","c">>, <<"N","e","g","r","u"," ","M","e","t","a","l","i","c">>>>,
     <<<<"B","r","o","w","n"," ","M","e","t","a","l","l","i","c">>, <<"M","a","r","o"," ","M","e","t","a","l","i","c">>>>,
     <<<<"B","l","u","e">>, <<"A","l","b","a","s","t","r","u">>>>,
     <<<<"R","e","d">>, <<"R","o","U+0219","u">>>>,
     <<<<"C","l","o","t","h",","," ","B","l","a","c","k">>, <<"T","e","x","t","i","l",","," ","N","e","g","r","u">>>>,
     <<<<"C","l","o","t","h",","," ","B","r","o","w","n">>, <<"T","e","x","t","i","l",","," ","M","a","r","o">>>>,
     <<<<"F","u","l","l"," ","l","e","a","t","h","e","r",","," ","B","e","i","g","e">>, <<"P","i","e","l","e"," ","i","n","t","e","g","r","a","l","U+0103",","," ","B","e","j">>>>,
     <<<<"F","u","l","l"," ","l","e","a","t","h","e","r",","," ","B","r","o","w","n">>, <<"P","i","e","l","e"," ","i","n","t","e","g","r","a","l","U+0103",","," ","M","a","r","o">>>>,
     <<<<"F","u","l","l"," ","l","e","a","t","h","e","r",","," ","O","t","h","e","r">>, <<"P","i","e","l","e"," ","i","n","t","e","g","r","a","l","U+0103",","," ","A","l","t","e">>>>,
     <<<<"E","u","r","o","5">>, <<"E","u","r","o","5">>>>,
     <<<<"E","u","r","o","6">>, <<"E","u","r","o","6">>>>,
     <<<<"4"," ","(","G","r","e","e","n",")">>, <<"4"," ","(","V","e","r","d","e",")">>>>,
     <<<<"N","e","w">>, <<"N","o","u">>>>,
     <<<<"U","s","e","d">>, <<"F","o","l","o","s","i","t">>>>,
     <<<<"A","u","t","o","m","a","t","i","c"," ","g","e","a","r","b","o","x">>, <<"A","u","t","o","m","a","t","U+0103">>>>,
     <<<<"B","r","o","w","n">>, <<"M","a","r","o">>>>,
     <<<<"W","h","i","t","e">>, <<"A","l","b">>>>,
     <<<<"B","l","a","c","k">>, <<"N","e","g","r","u">>>>,
     <<<<"I","n","t","e","r","n","a","l">>, <<"I","n","t","e","r","n">>>>,
     <<<<"F","r","o","n","t">>, <<"F","a","U+021B","U+0103">>>>,
     <<<<"R","e","a","r">>, <<"S","p","a","t","e">>>>,
     <<<<"C","a","m","e","r","a">>, <<"C","a","m","e","r","U+0103">>>> >>

NEW_METAFIELD_MAPPINGS ==
  << <<<<"d","e","a","l","e","r","D","e","t","a","i","l","s">>, <<"V","e","n","d","o","r">>>>,
     <<<<"N","u","m","U+0103","r"," ","v","e","h","i","c","u","l">>, <<"V","a","r","i","a","n","t"," ","B","a","r","c","o","d","e">>>>,
     <<<<"G","r","e","u","t","a","t","e">>, <<"V","a","r","i","a","n","t"," ","W","e","i","g","h","t">>>>,
     <<<<"V","e","n","d","o","r">>, <<"M","e","t","a","f","i","e","l","d",":"," ","c","u","s","t","o","m",".","n","r","_","d","o","s","_"," ","[","s","i","n","g","l","e","_","l","i","n","e","_","t","e","x","t","_","f","i","e","l","d","]">>>>,
     <<<<"P","r","i","m","a"," ","U+00EE","n","m","a","t","r","i","c","u","l","a","r","e">>, <<"M","e","t","a","f","i","e","l","d",":"," ","c","u","s","t","o","m",".","d","a","t","a","_","l","i","v","r","a","r","i","i"," ","[","s","i","n","g","l","e","_","l","i","n","e","_","t","e","x","t","_","f","i","e","l","d","]">>>>,
     <<<<"C","a","p","a","c","i","t","a","t","e"," ","c","i","l","i","n","d","r","i","c","U+0103">>, <<"M","e","t","a","f","i","e","l","d",":"," ","c","u","s","t","o","m",".","c","i","l","i","n","d","r","e","e"," ","[","s","i","n","g","l","e","_","l","i","n","e","_","t","e","x","t","_","f","i","e","l","d","]">>>>,
     <<<<"E","m","i","s","i","i"," ","C","O","U+2082"," ","(","c","o","m","b",".",")">>, <<"M","e","t","a","f","i","e","l","d",":"," ","c","u","s","t","o","m",".","e","m","i","s","i","i","_","c","o","2"," ","[","s","i","n","g","l","e","_","l","i","n","e","_","t","e","x","t","_","f","i","e","l","d","]">>>>,
     <<<<"T","r","a","n","s","m","i","s","i","e">>, <<"M","e","t","a","f","i","e","l","d",":"," ","c","u","s","t","o","m",".","c","u","t","i","e","_","v","i","t","e","z","e"," ","[","s","i","n","g","l","e","_","l","i","n","e","_","t","e","x","t","_","f","i","e","l","d","]">>>>,
     <<<<"C","l","a","s","U+0103"," ","d","e"," ","e","m","i","s","i","i">>, <<"M","e","t","a","f","i","e","l","d",":"," ","c","u","s","t","o","m",".","c","l","a","s","a","_","d","e","_","e","m","i","s","i","i","_","n","o","x","e"," ","[","s","i","n","g","l","e","_","l","i","n","e","_","t","e","x","t","_","f","i","e","l","d","]">>>>,
     <<<<"C","a","r"," ","U","r","l">>, <<"M","e","t","a","f","i","e","l","d",":"," ","c","u","s","t","o","m",".","n","r","_","i","m","a","t","r","_"," ","[","s","i","n","g","l","e","_","l","i","n","e","_","t","e","x","t","_","f","i","e","l","d","]">>>>,
     <<<<"C","u","l","o","a","r","e">>, <<"M","e","t","a","f","i","e","l","d",":"," ","c","u","s","t","o","m",".","c","u","l","o","a","r","e"," ","[","s","i","n","g","l","e","_","l","i","n","e","_","t","e","x","t","_","f","i","e","l","d","]">>>>,
     <<<<"N","u","m","U+0103","r"," ","u","U+0219","i">>, <<"M","e","t","a","f","i","e","l","d",":"," ","c","u","s","t","o","m",".","n","r","_","d","e","_","u","s","i"," ","[","s","i","n","g","l","e","_","l","i","n","e","_","t","e","x","t","_","f","i","e","l","d","]">>>>,
     <<<<"C","o","n","s","t","r","u","c","t","i","o","n"," ","Y","e","a","r">>, <<"M","e","t","a","f","i","e","l","d",":"," ","c","u","s","t","o","m",".","a","n","u","l","_","m","o","d","e","l","u","l","u","i"," ","[","s","i","n","g","l","e","_","l","i","n","e","_","t","e","x","t","_","f","i","e","l","d","]">>>>,
     <<<<"P","u","t","e","r","e">>, <<"M","e","t","a","f","i","e","l","d",":"," ","c","u","s","t","o","m",".","p","u","t","e","r","e","_","c","p"," ","[","s","i","n","g","l","e","_","l","i","n","e","_","t","e","x","t","_","f","i","e","l","d","]">>>>,
     <<<<"K","i","l","o","m","e","t","r","a","j">>, <<"M","e","t","a","f","i","e","l","d",":"," ","c","u","s","t","o","m",".","k","i","l","o","m","e","t","r","a","j"," ","[","s","i","n","g","l","e","_","l","i","n","e","_","t","e","x","t","_","f","i","e","l","d","]">>>>,
     <<<<"N","i","v","e","l"," ","e","c","h","i","p","a","r","e">>, <<"M","e","t","a","f","i","e","l","d",":"," ","c","u","s","t","o","m",".","n","i","v","e","l","_","d","e","_","e","c","h","i","p","a","r","e"," ","[","s","i","n","g","l","e","_","l","i","n","e","_","t","e","x","t","_","f","i","e","l","d","]">>>>,
     <<<<"F","e","a","t","u","r","e","s">>, <<"M","e","t","a","f","i","e","l","d",":"," ","c","u","s","t","o","m",".","d","o","t","a","r","i"," ","[","m","u","l","t","i","_","l","i","n","e","_","t","e","x","t","_","f","i","e","l","d","]">>>>,
     <<<<"C","a","t","e","g","o","r","i","e">>, <<"M","e","t","a","f","i","e","l","d",":"," ","c","u","s","t","o","m",".","b","o","d","u","_","t","y","p","e"," ","[","s","i","n","g","l","e","_","l","i","n","e","_","t","e","x","t","_","f","i","e","l","d","]">>>>,
     <<<<"V","e","h","i","c","l","e"," ","t","a","x">>, <<"M","e","t","a","f","i","e","l","d",":"," ","c","u","s","t","o","m",".","t","v","a"," ","[","s","i","n","g","l","e","_","l","i","n","e","_","t","e","x","t","_","f","i","e","l","d","]">>>>,
     <<<<"C","o","m","b","u","s","t","i","b","i","l">>, <<"M","e","t","a","f","i","e","l","d",":"," ","c","u","s","t","o","m",".","f","u","e","l"," ","[","s","i","n","g","l","e","_","l","i","n","e","_","t","e","x","t","_","f","i","e","l","d","]">>>>,
     <<<<"B","a","t","t","e","r","y"," ","c","a","p","a","c","i","t","y"," ","(","i","n"," ","k","W","h",")">>, <<"M","e","t","a","f","i","e","l","d",":"," ","c","u","s","t","o","m",".","c","a","p","a","c","i","t","a","t","e","_","b","a","t","e","r","i","e"," ","[","s","i","n","g","l","e","_","l","i","n","e","_","t","e","x","t","_","f","i","e","l","d","]">>>>,
     <<<<"E","l","e","c","t","r","i","c"," ","r","a","n","g","e"," ","(","E","A","E","R",")">>, <<"M","e","t","a","f","i","e","l","d",":"," ","c","u","s","t","o","m",".","r","a","n","g","e","_","m","o","d","_","e","l","e","c","t","r","i","c"," ","[","s","i","n","g","l","e","_","l","i","n","e","_","t","e","x","t","_","f","i","e","l","d","]">>>>,
     <<<<"C","o","n","s","u","m"," ","d","e"," ","e","n","e","r","g","i","e"," ","(","c","o","m","b",".",")">>, <<"M","e","t","a","f","i","e","l","d",":"," ","c","u","s","t","o","m",".","c","o","n","s","u","m","_","c","o","m","b","i","n","a","t"," ","[","s","i","n","g","l","e","_","l","i","n","e","_","t","e","x","t","_","f","i","e","l","d","]">>>>,
     <<<<"p","r","i","c","e","/","w","i","t","h","o","u","t","V","A","T","/","a","m","o","u","n","t">>, <<"M","e","t","a","f","i","e","l","d",":"," ","c","u","s","t","o","m",".","p","r","e","t","_","f","u","r","n","i","z","o","r"," ","[","s","i","n","g","l","e","_","l","i","n","e","_","t","e","x","t","_","f","i","e","l","d","]">>>> >>

ALWAYS_KEEP_FIELDS ==
  { <<"T","i","t","l","e">>,
    <<"B","o","d","y"," ","H","T","M","L">>,
    <<"T","a","g","s">>,
    <<"I","m","a","g","e"," ","S","r","c">>,
    <<"I","m","a","g","e"," ","A","l","t"," ","T","e","x","t">>,
    <<"V","a","r","i","a","n","t"," ","S","K","U">>,
    <<"V","a","r","i","a","n","t"," ","P","r","i","c","e">>,
    <<"M","e","t","a","f","i","e","l","d",":"," ","c","u","s","t","o","m",".","m","o","d","e","l"," ","[","s","i","n","g","l","e","_","l","i","n","e","_","t","e","x","t","_","f","i","e","l","d","]">>,
    <<"M","e","t","a","f","i","e","l","d",":"," ","c","u","s","t","o","m",".","m","a","r","c","a"," ","[","s","i","n","g","l","e","_","l","i","n","e","_","t","e","x","t","_","f","i","e","l","d","]">>,
    <<"M","e","t","a","f","i","e","l","d",":"," ","c","u","s","t","o","m",".","p","u","t","e","r","e","_","k","w"," ","[","s","i","n","g","l","e","_","l","i","n","e","_","t","e","x","t","_","f","i","e","l","d","]">>,
    <<"M","e","t","a","f","i","e","l","d",":"," ","c","u","s","t","o","m",".","p","u","t","e","r","e","_","c","p"," ","[","s","i","n","g","l","e","_","l","i","n","e","_","t","e","x","t","_","f","i","e","l","d","]">>,
    <<"M","e","t","a","f","i","e","l","d",":"," ","c","u","s","t","o","m",".","t","r","a","n","s","m","i","s","i","e"," ","[","l","i","s","t",".","s","i","n","g","l","e","_","l","i","n","e","_","t","e","x","t","_","f","i","e","l","d","]">>,
    <<"M","e","t","a","f","i","e","l","d",":"," ","c","u","s","t","o","m",".","t","v","a"," ","[","s","i","n","g","l","e","_","l","i","n","e","_","t","e","x","t","_","f","i","e","l","d","]">>,
    <<"H","a","n","d","l","e">>,
    <<"T","e","m","p","l","a","t","e"," ","S","u","f","f","i","x">> }

\* TABLE[k] || fallback, for the tables above
Lookup(table, k, fallback) == IF HasKey(table, k) /\ Len(GetKey(table, k)) > 0 THEN GetKey(table, k) ELSE fallback

(***************************************************************************)
(* Column and field names                                                  *)
(***************************************************************************)
kTitle == <<"T","i","t","l","e">>
kHandle == <<"H","a","n","d","l","e">>
kVariantSKU == <<"V","a","r","i","a","n","t"," ","S","K","U">>
kVariantID == <<"V","a","r","i","a","n","t"," ","I","D">>
kVariantPrice == <<"V","a","r","i","a","n","t"," ","P","r","i","c","e">>
kVendor == <<"V","e","n","d","o","r">>
kImageSrc == <<"I","m","a","g","e"," ","S","r","c">>
kImageAltText == <<"I","m","a","g","e"," ","A","l","t"," ","T","e","x","t">>
kTags == <<"T","a","g","s">>
kBodyHTML == <<"B","o","d","y"," ","H","T","M","L">>
kFeatures == <<"F","e","a","t","u","r","e","s">>
kDealerDetails == <<"d","e","a","l","e","r","D","e","t","a","i","l","s">>
kCarUrl == <<"C","a","r"," ","U","r","l">>
kITP == <<"I","T","P">>
kPriceNoVat == <<"p","r","i","c","e","/","w","i","t","h","o","u","t","V","A","T","/","a","m","o","u","n","t">>
kPriceTotalAmount == <<"p","r","i","c","e","/","t","o","t","a","l","/","a","m","o","u","n","t">>
kMarca == <<"M","e","t","a","f","i","e","l","d",":"," ","c","u","s","t","o","m",".","m","a","r","c","a"," ","[","s","i","n","g","l","e","_","l","i","n","e","_","t","e","x","t","_","f","i","e","l","d","]">>
kModel == <<"M","e","t","a","f","i","e","l","d",":"," ","c","u","s","t","o","m",".","m","o","d","e","l"," ","[","s","i","n","g","l","e","_","l","i","n","e","_","t","e","x","t","_","f","i","e","l","d","]">>
kPutereKw == <<"M","e","t","a","f","i","e","l","d",":"," ","c","u","s","t","o","m",".","p","u","t","e","r","e","_","k","w"," ","[","s","i","n","g","l","e","_","l","i","n","e","_","t","e","x","t","_","f","i","e","l","d","]">>
kPutereCp == <<"M","e","t","a","f","i","e","l","d",":"," ","c","u","s","t","o","m",".","p","u","t","e","r","e","_","c","p"," ","[","s","i","n","g","l","e","_","l","i","n","e","_","t","e","x","t","_","f","i","e","l","d","]">>
kTransmisie == <<"M","e","t","a","f","i","e","l","d",":"," ","c","u","s","t","o","m",".","t","r","a","n","s","m","i","s","i","e"," ","[","l","i","s","t",".","s","i","n","g","l","e","_","l","i","n","e","_","t","e","x","t","_","f","i","e","l","d","]">>
kTva == <<"M","e","t","a","f","i","e","l","d",":"," ","c","u","s","t","o","m",".","t","v","a"," ","[","s","i","n","g","l","e","_","l","i","n","e","_","t","e","x","t","_","f","i","e","l","d","]">>
kTemplateSuffix == <<"T","e","m","p","l","a","t","e"," ","S","u","f","f","i","x">>
kAttributesPower == <<"a","t","t","r","i","b","u","t","e","s","/","P","o","w","e","r">>

fTitle == <<"t","i","t","l","e">>
fId == <<"i","d">>
fUrl == <<"u","r","l">>
fPrice == <<"p","r","i","c","e">>
fAmount == <<"a","m","o","u","n","t">>
fValue == <<"v","a","l","u","e">>
fTotal == <<"t","o","t","a","l">>
fCurrency == <<"c","u","r","r","e","n","c","y">>
fWithoutVAT == <<"w","i","t","h","o","u","t","V","A","T">>
fImages == <<"i","m","a","g","e","s">>
fFeatures == <<"f","e","a","t","u","r","e","s">>
fAttributes == <<"a","t","t","r","i","b","u","t","e","s">>
fDealerDetails == <<"d","e","a","l","e","r","D","e","t","a","i","l","s">>
fBrand == <<"b","r","a","n","d">>
fModel == <<"m","o","d","e","l">>
fSellerId == <<"s","e","l","l","e","r","I","d">>
fName == <<"n","a","m","e">>
fKey == <<"k","e","y">>
fSrc == <<"s","r","c">>
fPower == <<"P","o","w","e","r">>

EmptyStr == Str(<<>>)

\* item.k for an item that may be null or undefined: after the guard
\* "item &&" of the source, a missing item reads as undefined
Field(it, k) == IF it.t = "obj" THEN GetKey(it.o, k) ELSE Undef

(***************************************************************************)
(* extractNumber and extractKwHp                                           *)
(***************************************************************************)
DigitsOf(s) == SelectSeq(s, IsDigit)

\* every run of digits of String(value), joined
extractNumber(value) == IF IsNullish(value) THEN <<>> ELSE DigitsOf(ToStr(value))

AllDigits(s, i, n) == i >= 1 /\ i + n - 1 <= Len(s) /\ \A j \in i..(i + n - 1) : IsDigit(s[j])
\* the two letters of unit at position i, in either case
UnitAt(s, i, unit) == i + 1 <= Len(s) /\ ToLowerChar(s[i]) = unit[1] /\ ToLowerChar(s[i + 1]) = unit[2]

\* /(\d{2,4})\s*kW/i matches with its group of n digits at position i
KwAt(s, i, n) == AllDigits(s, i, n) /\ UnitAt(s, FirstNonSpace(s, i + n), <<"k","w">>)
\* /\((\d{2,4})\s*hp\)/i matches with "(" at position i and a group of n digits
HpAt(s, i, n) ==
  /\ s[i] = "("
  /\ AllDigits(s, i + 1, n)
  /\ LET u == FirstNonSpace(s, i + 1 + n)
     IN UnitAt(s, u, <<"h","p">>) /\ u + 2 <= Len(s) /\ s[u + 2] = ")"

\* the first group of the leftmost match, the longest group there: the
\* quantifier {2,4} is greedy
FirstGroup(s, At(_, _, _), off) ==
  IF \E i \in 1..Len(s), n \in 2..4 : At(s, i, n)
  THEN LET i == CHOOSE a \in 1..Len(s) :
                  (\E n \in 2..4 : At(s, a, n)) /\ \A b \in 1..(a - 1) : \A n \in 2..4 : ~At(s, b, n)
           n == CHOOSE a \in 2..4 : At(s, i, a) /\ \A b \in (a + 1)..4 : ~At(s, i, b)
       IN [found |-> TRUE, g |-> SubSeq(s, i + off, i + off + n - 1)]
  ELSE [found |-> FALSE, g |-> <<>>]

\* mode is "kw" or "cp"; the result is a string
matchedGroup(mode, kwMatch, hpMatch) ==
  IF mode = "kw" /\ kwMatch.found THEN kwMatch.g
  ELSE IF mode = "cp" /\ hpMatch.found THEN hpMatch.g
  ELSE <<>>

kwHpOfText(str, mode) == matchedGroup(mode, FirstGroup(str, KwAt, 0), FirstGroup(str, HpAt, 1))

extractKwHp(value, mode) == IF IsNullish(value) THEN <<>> ELSE kwHpOfText(ToStr(value), mode)

(***************************************************************************)
(* Attribute decoding, shared by normalizeItem and                         *)
(* expandAttributesToColumns (the same statements in both)                 *)
(***************************************************************************)
\* Object.entries(o).map(([k, v]) => ({ name: k, value: v }))
EntriesToAttrs(o) == [i \in 1..Len(o) |-> Obj(<< <<fName, Str(o[i][1])>>, <<fValue, o[i][2]>> >>)]

\* one "name:value" piece: split on ':', the first part the name, the rest
\* joined again the value
PieceToAttr(kv) ==
  LET parts == Split(kv, {":"})
  IN [name |-> Str(Trim(parts[1])), value |-> Str(Trim(Join(Tail(parts), <<":">>)))]

RECURSIVE FlatSplit(_, _)
\* rawAttrs.flatMap((s) => String(s).split(/[;|]/))
FlatSplit(rawAttrs, i) ==
  IF i > Len(rawAttrs) THEN <<>>
  ELSE Split(ToStr(rawAttrs[i]), {";", "|"}) \o FlatSplit(rawAttrs, i + 1)

\* the attrs array built from rawAttrs: thrown is TRUE where the source
\* raises a TypeError (hasOwnProperty.call on null, a property of null or
\* undefined)
\* the pieces as attributes, those without a name and a value left out
PiecesToAttrs(pieces) ==
  SelectSeq([i \in 1..Len(pieces) |-> PieceToAttr(pieces[i])], LAMBDA a : Truthy(a.name) \/ Truthy(a.value))

\* the branch for a first element with a name or a key
NamedAttrs(rawAttrs) ==
  IF \E i \in 1..Len(rawAttrs) : IsNullish(rawAttrs[i])
  THEN [thrown |-> TRUE, attrs |-> <<>>]
  ELSE [thrown |-> FALSE,
        attrs |-> [i \in 1..Len(rawAttrs) |->
          [name |-> OrElse(OrElse(Prop(rawAttrs[i], fName), Prop(rawAttrs[i], fKey)), EmptyStr),
           value |-> Coalesce(Prop(rawAttrs[i], fValue), EmptyStr)]]]

decodeAttrs(rawAttrs) ==
  IF Len(rawAttrs) = 0 THEN [thrown |-> FALSE, attrs |-> <<>>]
  ELSE IF TypeofObject(rawAttrs[1]) /\ rawAttrs[1].t = "null" THEN [thrown |-> TRUE, attrs |-> <<>>]
  ELSE IF TypeofObject(rawAttrs[1]) /\ (HasOwn(rawAttrs[1], fName) \/ HasOwn(rawAttrs[1], fKey))
    THEN NamedAttrs(rawAttrs)
  ELSE [thrown |-> FALSE, attrs |-> PiecesToAttrs(FlatSplit(rawAttrs, 1))]

(***************************************************************************)
(* expandAttributesToColumns                                               *)
(***************************************************************************)
RECURSIVE SkipNumeric(_, _)
\* the end of the run [0-9,./]* from position i
SkipNumeric(s, i) ==
  IF i <= Len(s) /\ (IsDigit(s[i]) \/ s[i] \in {",", ".", "/"}) THEN SkipNumeric(s, i + 1) ELSE i

\* the displayed short value of a trimmed attribute value
\* step 1, for a value that starts with a digit
shortNumeric(strVal, firstToken) ==
  IF \E i \in 1..Len(firstToken) : IsLetter(firstToken[i])
  THEN firstToken
  ELSE SubSeq(strVal, 1, SkipNumeric(strVal, 2) - 1)

\* step 2: the first word before the comma at commaIndex, when the text
\* after it does not start with a digit
shortByComma(strVal, commaIndex, second) ==
  IF commaIndex > 0 /\ Len(second) > 0 /\ ~IsDigit(second[1])
  THEN FirstToken(Trim(SubSeq(strVal, 1, commaIndex - 1))) ELSE <<>>

shortAtComma(strVal, commaIndex) ==
  shortByComma(strVal, commaIndex, Trim(SubSeq(strVal, commaIndex + 1, Len(strVal))))

\* step 3: the first word, when step 2 gave nothing
shortOr(byComma, strVal) == IF Len(byComma) > 0 THEN byComma ELSE FirstToken(strVal)

\* the first word of the value in every case
shortValFirstWord(strVal) == FirstToken(strVal)

shortVal(strVal) ==
  IF Len(strVal) > 0 /\ IsDigit(strVal[1])
  THEN shortNumeric(strVal, FirstToken(strVal))
  ELSE shortOr(shortAtComma(strVal, IndexOf(strVal, ",")), strVal)

IsColour(rawName) == rawName = <<"C","o","l","o","u","r">> \/ rawName = <<"C","o","l","o","u","r"," ","(","M","a","n","u","f","a","c","t","u","r","e","r",")">>

\* shortVal translated, unless the attribute is a colour
translatedVal(rawName, short) ==
  IF ~IsColour(rawName) /\ HasKey(VALUE_TRANSLATIONS, short) THEN GetKey(VALUE_TRANSLATIONS, short) ELSE short

\* the column gets the value of every attribute with its name
expandColumnOverwriting(cols, rawName, name, short) ==
  IF Len(rawName) = 0 THEN cols ELSE SetKey(cols, name, Str(translatedVal(rawName, short)))

\* the column name of the attribute rawName gets the value, unless it has one
expandColumn(cols, rawName, name, short) ==
  IF Len(rawName) = 0 THEN cols
  ELSE IF HasKey(cols, name) THEN cols
  ELSE SetKey(cols, name, Str(translatedVal(rawName, short)))

expandNamed(cols, rawName, val) ==
  expandColumn(cols, rawName, Lookup(ATTR_TRANSLATIONS, rawName, rawName),
               shortVal(IF IsNullish(val) THEN <<>> ELSE Trim(ToStr(val))))

\* one pass of attrs.forEach: the columns after attribute attr
expandOne(cols, attr) ==
  expandNamed(cols, IF Truthy(attr.name) THEN Trim(ToStr(attr.name)) ELSE <<>>,
              IF IsArray(attr.value) /\ Len(attr.value.a) > 0 THEN attr.value.a[1] ELSE attr.value)

RECURSIVE expandFrom(_, _, _)
expandFrom(attrs, i, cols) ==
  IF i > Len(attrs) THEN cols ELSE expandFrom(attrs, i + 1, expandOne(cols, attrs[i]))

IsPlainObject(v) == v.t = "obj"

\* the rawAttrs array of expandAttributesToColumns
rawAttrsOfParsed(attrRaw, parsed) ==
  IF IsPlainObject(attrRaw) THEN EntriesToAttrs(attrRaw.o)
  ELSE IF attrRaw.t = "str" /\ Len(attrRaw.s) > 0 /\ parsed.ok /\ IsPlainObject(parsed.v)
    THEN EntriesToAttrs(parsed.v.o)
  ELSE safeParseMaybeList(attrRaw)

\* rawAttrs for the value attrRaw of item.attributes; JSON.parse is applied
\* to a string only
rawAttrsOf(attrRaw) == rawAttrsOfParsed(attrRaw, JSONParse(attrRaw.s))

expandRawAttrs(it) == rawAttrsOf(IF Truthy(it) THEN Field(it, fAttributes) ELSE it)

\* the columns of the decoded attributes d
columnsOf(d) ==
  IF d.thrown THEN [thrown |-> TRUE, cols |-> <<>>]
  ELSE [thrown |-> FALSE, cols |-> expandFrom(d.attrs, 1, <<>>)]

\* thrown is TRUE where the call raises; cols is the returned object
expandAttributesToColumns(it) == columnsOf(decodeAttrs(expandRawAttrs(it)))

(***************************************************************************)
(* normalizeItem                                                           *)
(***************************************************************************)
SliceLen == 10

RECURSIVE SkipAmountChars(_, _)
SkipAmountChars(s, i) ==
  IF i <= Len(s) /\ (IsDigit(s[i]) \/ s[i] \in {".", ","}) THEN SkipAmountChars(s, i + 1) ELSE i

\* price.match(/[\d.,]+/): the leftmost longest run, empty when there is none
amountMatch(s) ==
  IF \E i \in 1..Len(s) : IsDigit(s[i]) \/ s[i] \in {".", ","}
  THEN LET i == CHOOSE a \in 1..Len(s) :
                  /\ (IsDigit(s[a]) \/ s[a] \in {".", ","})
                  /\ \A b \in 1..(a - 1) : ~(IsDigit(s[b]) \/ s[b] \in {".", ","})
       IN SubSeq(s, i, SkipAmountChars(s, i) - 1)
  ELSE <<>>

CurrencyWords == {<<"r","o","n">>, <<"e","u","r">>, <<"u","s","d">>, <<"g","b","p">>}
\* the length of the match of the currency pattern (a euro, dollar or pound
\* sign, or RON, EUR, USD, GBP in either case) at position i, 0 for none
CurrencyAt(s, i) ==
  IF s[i] \in {Euro, Dollar, Pound} THEN 1
  ELSE IF i + 2 <= Len(s) /\ ToLowerCase(SubSeq(s, i, i + 2)) \in CurrencyWords THEN 3
  ELSE 0

currencyMatch(s) ==
  IF \E i \in 1..Len(s) : CurrencyAt(s, i) > 0
  THEN LET i == CHOOSE a \in 1..Len(s) : CurrencyAt(s, a) > 0 /\ \A b \in 1..(a - 1) : CurrencyAt(s, b) = 0
       IN SubSeq(s, i, i + CurrencyAt(s, i) - 1)
  ELSE <<>>

\* (img) => img && typeof img === 'object' ? img[k1] || img[k2] || '' : String(img)
ReduceElem(e, k1, k2) ==
  IF Truthy(e) /\ TypeofObject(e)
  THEN OrElse(OrElse(Prop(e, k1), Prop(e, k2)), EmptyStr)
  ELSE Str(ToStr(e))

RECURSIVE SetIndexed(_, _, _, _)
\* out[`${prefix}${i}`] = list[i] for the first SliceLen elements
SetIndexed(o, prefix, list, i) ==
  IF i > Len(list) \/ i > SliceLen THEN o
  ELSE SetIndexed(SetKey(o, prefix \o NatToStr(i), list[i]), prefix, list, i + 1)

RECURSIVE SetAttrPairs(_, _, _)
SetAttrPairs(o, attrs, i) ==
  IF i > Len(attrs) \/ i > SliceLen THEN o
  ELSE SetAttrPairs(
         SetKey(SetKey(o, <<"a","t","t","r","i","b","u","t","e","_">> \o NatToStr(i) \o <<"_","n","a","m","e">>, OrElse(attrs[i].name, EmptyStr)),
                <<"a","t","t","r","i","b","u","t","e","_">> \o NatToStr(i) \o <<"_","v","a","l","u","e">>, OrElse(attrs[i].value, EmptyStr)),
         attrs, i + 1)

AttrObjects(attrs) == [i \in 1..Len(attrs) |-> Obj(<< <<fName, attrs[i].name>>, <<fValue, attrs[i].value>> >>)]

normPrice(price) ==
  IF Truthy(price) /\ TypeofObject(price)
  THEN << <<<<"p","r","i","c","e","_","a","m","o","u","n","t">>, Coalesce(Coalesce(Prop(price, fAmount), Prop(price, fValue)), EmptyStr)>>,
          <<<<"p","r","i","c","e","_","c","u","r","r","e","n","c","y">>, Coalesce(Prop(price, fCurrency), EmptyStr)>> >>
  ELSE IF price.t = "str"
  THEN << <<<<"p","r","i","c","e","_","a","m","o","u","n","t">>, Str(amountMatch(price.s))>>,
          <<<<"p","r","i","c","e","_","c","u","r","r","e","n","c","y">>, Str(currencyMatch(price.s))>> >>
  ELSE << <<<<"p","r","i","c","e","_","a","m","o","u","n","t">>, EmptyStr>>, <<<<"p","r","i","c","e","_","c","u","r","r","e","n","c","y">>, EmptyStr>> >>

\* the catch block
noDealer == << <<<<"d","e","a","l","e","r","_","n","a","m","e">>, EmptyStr>>, <<<<"d","e","a","l","e","r","_","c","i","t","y">>, EmptyStr>>, <<<<"d","e","a","l","e","r","_","p","h","o","n","e">>, EmptyStr>> >>

dealerFields(dealer) ==
  << <<<<"d","e","a","l","e","r","_","n","a","m","e">>, OrElse(Prop(dealer, fName), EmptyStr)>>,
     <<<<"d","e","a","l","e","r","_","c","i","t","y">>, OrElse(OrElse(Prop(dealer, <<"c","i","t","y">>), Prop(dealer, <<"l","o","c","a","t","i","o","n">>)), EmptyStr)>>,
     <<<<"d","e","a","l","e","r","_","p","h","o","n","e">>, OrElse(OrElse(Prop(dealer, <<"p","h","o","n","e">>), Prop(dealer, <<"t","e","l","e","p","h","o","n","e">>)), EmptyStr)>> >>

\* a SyntaxError of JSON.parse and the TypeError of null.name are caught
parsedDealer(parsed) == IF ~parsed.ok \/ IsNullish(parsed.v) THEN noDealer ELSE dealerFields(parsed.v)

normDealer(dd) ==
  IF dd.t = "str" THEN parsedDealer(JSONParse(dd.s)) ELSE dealerFields(OrElse(dd, Obj(<<>>)))

\* safeParseMaybeList(value).map(...) with the two property names of ReduceElem
reducedList(raw, k1, k2) == [i \in 1..Len(raw) |-> ReduceElem(raw[i], k1, k2)]

\* out.images_json and out.image_1 .., likewise for the features
withList(o, jsonKey, prefix, list) ==
  SetIndexed(Append(o, <<jsonKey, Str(JSONStringify(Arr(list)))>>), prefix, list, 1)

\* out.attributes_json and the attribute_i_name and attribute_i_value pairs
withAttrs(o, attrs) ==
  SetAttrPairs(Append(o, <<<<"a","t","t","r","i","b","u","t","e","s","_","j","s","o","n">>, Str(JSONStringify(Arr(AttrObjects(attrs))))>>), attrs, 1)

normHead(it) ==
  << <<<<"t","i","t","l","e">>, Coalesce(Field(it, fTitle), EmptyStr)>>,
     <<<<"u","r","l">>, Coalesce(Field(it, fUrl), EmptyStr)>>,
     <<<<"p","r","e","v","i","e","w","_","i","m","a","g","e">>, Coalesce(Field(it, <<"p","r","e","v","i","e","w","I","m","a","g","e">>), EmptyStr)>> >>
  \o normPrice(Field(it, fPrice))

normMeta(it) ==
  << <<<<"s","o","u","r","c","e","_","i","d">>, Coalesce(Field(it, fId), EmptyStr)>>,
     <<<<"s","e","l","l","e","r","_","i","d">>, Coalesce(Field(it, fSellerId), EmptyStr)>>,
     <<<<"s","e","g","m","e","n","t">>, Coalesce(Field(it, <<"s","e","g","m","e","n","t">>), EmptyStr)>>,
     <<<<"c","a","t","e","g","o","r","y">>, Coalesce(Field(it, <<"c","a","t","e","g","o","r","y">>), EmptyStr)>>,
     <<<<"r","a","n","k">>, Coalesce(Field(it, <<"r","a","n","k">>), EmptyStr)>> >>

\* the object out in the order of its assignments, d the decoded attributes
normOut(it, d) ==
  withAttrs(withList(withList(normHead(it),
                              <<"i","m","a","g","e","s","_","j","s","o","n">>, <<"i","m","a","g","e","_">>,
                              reducedList(safeParseMaybeList(Field(it, fImages)), fUrl, fSrc)),
                     <<"f","e","a","t","u","r","e","s","_","j","s","o","n">>, <<"f","e","a","t","u","r","e","_">>,
                     reducedList(safeParseMaybeList(Field(it, fFeatures)), fName, fTitle)),
            d.attrs)
  \o normDealer(Field(it, fDealerDetails)) \o normMeta(it)

normalized(it, d) ==
  IF it.t = "null" \/ d.thrown THEN [thrown |-> TRUE, out |-> <<>>]
  ELSE [thrown |-> FALSE, out |-> normOut(it, d)]

normalizeRecord(it) == normalized(it, decodeAttrs(safeParseMaybeList(Field(it, fAttributes))))

\* thrown is TRUE where the call raises a TypeError; out is the returned
\* object.  The parameter defaults to {} when it is undefined.
normalizeItem(arg) == normalizeRecord(IF arg.t = "undef" THEN Obj(<<>>) ELSE arg)

(***************************************************************************)
(* buildMetafieldsRow, in the order of its statements                      *)
(***************************************************************************)
\* Set.prototype.add on a set kept as the tuple of its members in
\* insertion order
AddTag(tags, s) == IF \E i \in 1..Len(tags) : tags[i] = s THEN tags ELSE Append(tags, s)

\* the statements for the trimmed destination destTrim
applyTrimmed(st, source, value, dest, destTrim) ==
     IF Len(dest) = 0 THEN st
     ELSE IF destTrim = kTags THEN [st EXCEPT !.tags = AddTag(@, ToStr(value))]
     ELSE IF destTrim = kImageAltText THEN [st EXCEPT !.row = SetKey(@, kImageAltText, value)]
     ELSE IF destTrim = kVendor THEN [st EXCEPT !.row = SetKey(@, kVendor, value)]
     ELSE IF destTrim = kVariantPrice THEN [st EXCEPT !.row = SetKey(@, kVariantPrice, value)]
     ELSE IF StartsWith(destTrim, <<"M","e","t","a","f","i","e","l","d">>) /\ source = kAttributesPower
       THEN IF Includes(destTrim, <<"p","u","t","e","r","e","_","c","p">>)
              THEN [st EXCEPT !.row = SetKey(@, destTrim, Str(extractKwHp(value, "cp")))]
            ELSE IF Includes(destTrim, <<"p","u","t","e","r","e","_","k","w">>)
              THEN [st EXCEPT !.row = SetKey(@, destTrim, Str(extractKwHp(value, "kw")))]
            ELSE [st EXCEPT !.row = SetKey(@, destTrim, value)]
     ELSE [st EXCEPT !.row = SetKey(@, destTrim, value)]

\* every destination with a name is written to the row, 'Tags' as well
applyDestToRow(st, source, value, dest) ==
  IF Len(dest) = 0 THEN st ELSE [st EXCEPT !.row = SetKey(@, Trim(dest), value)]

\* the body of dests.forEach for one destination
applyDest(st, source, value, dest) == applyTrimmed(st, source, value, dest, Trim(dest))

RECURSIVE applyDests(_, _, _, _, _)
applyDests(st, source, value, dests, j) ==
  IF j > Len(dests) THEN st
  ELSE applyDests(applyDest(st, source, value, dests[j]), source, value, dests, j + 1)

\* one pass of mappingList.forEach: a mapping whose source value is
\* undefined, null or '' is skipped
applyMapping(st, m, value) ==
  IF IsNullish(value) \/ value = EmptyStr THEN st ELSE applyDests(st, m.source, value, m.dests, 1)

RECURSIVE applyMappings(_, _, _, _)
applyMappings(st, it, ml, i) ==
  IF i > Len(ml) THEN st
  ELSE applyMappings(applyMapping(st, ml[i], IF Truthy(it) THEN Field(it, ml[i].source) ELSE Undef),
                     it, ml, i + 1)

\* row[key] = v and tagsSet.add(String(v)) for a truthy v
withTagged(st, it, key, v) ==
  IF Truthy(it) /\ Truthy(v) THEN [row |-> SetKey(st.row, key, v), tags |-> AddTag(st.tags, ToStr(v))] ELSE st

\* brand and model become metafields and tags
brandModel(st, it) ==
  withTagged(withTagged(st, it, kMarca, Field(it, fBrand)), it, kModel, Field(it, fModel))

\* (item && item.title) ? String(item.title) : ''
titleOf(it) == IF Truthy(it) /\ Truthy(Field(it, fTitle)) THEN ToStr(Field(it, fTitle)) ELSE <<>>

IsSlugChar(c) == IsLower(c) \/ IsDigit(c)

\* replace(/[^a-z0-9]+/g, '-'): every run of other characters becomes one
\* hyphen
ReplaceRuns(s) ==
  LET marked == [i \in 1..Len(s) |->
                  IF IsSlugChar(s[i]) THEN s[i]
                  ELSE IF i > 1 /\ ~IsSlugChar(s[i - 1]) THEN "" ELSE "-"]
  IN SelectSeq(marked, LAMBDA c : c # "")

RECURSIVE StripLeading(_, _)
StripLeading(s, c) == IF Len(s) > 0 /\ s[1] = c THEN StripLeading(Tail(s), c) ELSE s
RECURSIVE StripTrailing(_, _)
StripTrailing(s, c) == IF Len(s) > 0 /\ s[Len(s)] = c THEN StripTrailing(SubSeq(s, 1, Len(s) - 1), c) ELSE s

\* trim, toLowerCase, replace(/[^a-z0-9]+/g, '-'), replace(/^-+|-+$/g, '')
slugOf(title) == StripTrailing(StripLeading(ReplaceRuns(ToLowerCase(Trim(title))), "-"), "-")

\* joinHandle with the hyphen and the id appended whatever they are: what
\* the construction would be without the tests on slug and idStr
joinHandleAlwaysHyphen(slug, idStr) == slug \o <<"-">> \o idStr

\* slug and idStr joined as the Handle
joinHandle(slug, idStr) ==
  IF Len(slug) > 0 /\ Len(idStr) > 0 THEN slug \o <<"-">> \o idStr
  ELSE IF Len(idStr) > 0 THEN idStr
  ELSE slug

\* (item && item.id != null) ? String(item.id).trim() : ''
idStrOf(it, id) == IF Truthy(it) /\ ~IsNullish(id) THEN Trim(ToStr(id)) ELSE <<>>

handleOf(it) == joinHandle(slugOf(titleOf(it)), idStrOf(it, Field(it, fId)))

\* item && item.id !== undefined ? String(item.id) : ''
idValOf(it) == IF Truthy(it) /\ Field(it, fId).t # "undef" THEN ToStr(Field(it, fId)) ELSE <<>>

\* the amount text: price.amount, then price.total.amount, then
\* price.value, then the flat field price/total/amount
nestedAmount(it, price) ==
  IF Truthy(it) /\ Truthy(price) /\ TypeofObject(price)
  THEN IF Truthy(Prop(price, fAmount)) THEN ToStr(Prop(price, fAmount))
       ELSE IF Truthy(Prop(price, fTotal)) /\ Truthy(Prop(Prop(price, fTotal), fAmount))
         THEN ToStr(Prop(Prop(price, fTotal), fAmount))
       ELSE IF Truthy(Prop(price, fValue)) THEN ToStr(Prop(price, fValue))
       ELSE <<>>
  ELSE <<>>

flatAmount(it, nested) ==
  IF Len(nested) = 0 /\ Truthy(it) /\ Truthy(Field(it, kPriceTotalAmount))
  THEN ToStr(Field(it, kPriceTotalAmount))
  ELSE nested

amountStrOf(it) == flatAmount(it, nestedAmount(it, Field(it, fPrice)))

ReplaceChar(s, c, d) == [i \in 1..Len(s) |-> IF s[i] = c THEN d ELSE s[i]]
RemoveChars(s, cs) == SelectSeq(s, LAMBDA c : c \notin cs)

RECURSIVE SkipNumChars(_, _)
SkipNumChars(s, i) == IF i <= Len(s) /\ (IsDigit(s[i]) \/ s[i] = ".") THEN SkipNumChars(s, i + 1) ELSE i

\* cleaned.match(/[0-9.]+/) ? cleaned.match(/[0-9.]+/)[0] : cleaned
firstNumRun(s) ==
  IF \E i \in 1..Len(s) : IsDigit(s[i]) \/ s[i] = "."
  THEN LET i == CHOOSE a \in 1..Len(s) :
                  /\ (IsDigit(s[a]) \/ s[a] = ".")
                  /\ \A b \in 1..(a - 1) : ~(IsDigit(s[b]) \/ s[b] = ".")
       IN SubSeq(s, i, SkipNumChars(s, i) - 1)
  ELSE s

\* replace(/\s+/g, '').replace(/[\u20ac\u00a3$]/g, '').trim()
stripAmount(text) == Trim(RemoveChars(SelectSeq(text, LAMBDA c : ~IsSpace(c)), {Euro, Pound, Dollar}))

\* with a comma and a dot the commas are thousands separators
dropCommas(c) == IF HasChar(c, ",") /\ HasChar(c, ".") THEN RemoveChars(c, {","}) ELSE c

\* with commas only the comma is the decimal mark
commaAsDot(c) == IF ~HasChar(c, ".") /\ HasChar(c, ",") THEN ReplaceChar(c, ",", ".") ELSE c

\* cleanAmount with every comma turned into a dot, also next to a dot
cleanAmountCommaAsDot(text) == firstNumRun(ReplaceChar(stripAmount(text), ",", "."))

\* the cleaned amount text handed to parseFloat
cleanAmount(text) == firstNumRun(commaAsDot(dropCommas(stripAmount(text))))

\* numVal: NaN unless the amount text is not empty
numValOf(text) == IF Len(text) > 0 THEN ParseFloat(cleanAmount(text)) ELSE NaN

DblNat(n) == Dbl(BFromNat(n), 0)

\* the literals of the price rule
Lit121 == DblLit(121, 100)
Lit119 == DblLit(119, 100)
Lit0095 == DblLit(95, 1000)
Lit0075 == DblLit(75, 1000)
Lit0065 == DblLit(65, 1000)
Lit0055 == DblLit(55, 1000)
Lit0045 == DblLit(45, 1000)
Lit0035 == DblLit(35, 1000)

\* one rate for every amount
commissionRateFlat(amt) == Lit0095

\* the commission rate for the amount amt
commissionRate(amt) ==
  IF DblLessNat(amt, 25000) THEN Lit0095
  ELSE IF DblLessNat(amt, 40000) THEN Lit0075
  ELSE IF DblLessNat(amt, 60000) THEN Lit0065
  ELSE IF DblLessNat(amt, 90000) THEN Lit0055
  ELSE IF DblLessNat(amt, 250000) THEN Lit0045
  ELSE Lit0035

\* (numVal * 1.21) / 1.19 * (1 + commissionRate), Math.round(x * 100) / 100,
\* toString
computedPrice(nv) ==
  FormatCents(MathRound(DblMul(DblMul(DblDiv(DblMul(nv, Lit121), Lit119),
                                      DblAdd(DblNat(1), commissionRate(nv))),
                               DblNat(100))))

\* the Variant Price block
variantPrice(r, nv) ==
  IF DblPositive(nv) THEN SetKey(r, kVariantPrice, Str(computedPrice(nv)))
  ELSE IF ~Truthy(GetKey(r, kVariantPrice)) THEN SetKey(r, kVariantPrice, EmptyStr)
  ELSE r

vendor(r, it) ==
  IF ~Truthy(GetKey(r, kVendor)) /\ Truthy(it) /\ Field(it, fSellerId).t # "undef"
  THEN SetKey(r, kVendor, Str(ToStr(Field(it, fSellerId)))) ELSE r

\* the first truthy item[`${prefix}${i}`] for i from 0 and below n, '' when
\* there is none
firstOfHits(it, prefix, hits) ==
  IF hits = {} THEN EmptyStr
  ELSE Field(it, prefix \o NatToStr(CHOOSE i \in hits : \A j \in hits : i <= j))

firstIndexed(it, prefix, n) ==
  firstOfHits(it, prefix, {i \in 0..(n - 1) : Truthy(Field(it, prefix \o NatToStr(i)))})

\* img, or the first element of item.images when img is empty
imageOr(img, images) ==
  IF ~Truthy(img) /\ IsArray(images) /\ Len(images.a) > 0
  THEN IF TypeofObject(images.a[1]) /\ images.a[1].t # "null"
       THEN OrElse(OrElse(Prop(images.a[1], fUrl), Prop(images.a[1], fSrc)), EmptyStr)
       ELSE Str(ToStr(images.a[1]))
  ELSE img

imageSrc(it) ==
  IF ~Truthy(it) THEN EmptyStr ELSE imageOr(firstIndexed(it, <<"i","m","a","g","e","s","/">>, 50), Field(it, fImages))

altText(r) ==
  IF ~Truthy(GetKey(r, kImageAltText)) THEN SetKey(r, kImageAltText, OrElse(GetKey(r, kTitle), EmptyStr)) ELSE r

\* Array.from(tagsSet).filter(Boolean).join(', ')
tagsText(tags) == Join(SelectSeqNonEmpty(tags), <<","," ">>)

\* the attribute object the Body HTML is built from, null when there is none
parsedAttrObj(parsed) == IF parsed.ok /\ parsed.v.t = "obj" THEN parsed.v ELSE Null

attrObjFrom(it, a) ==
  IF ~(Truthy(it) /\ Truthy(a)) THEN Null
  ELSE IF a.t = "obj" THEN a
  ELSE IF a.t = "str" THEN parsedAttrObj(JSONParse(a.s))
  ELSE Null

attrObjOf(it) == attrObjFrom(it, Field(it, fAttributes))

\* VALUE_TRANSLATIONS[sv] || sv
translateValue(sv) == Lookup(VALUE_TRANSLATIONS, sv, sv)

svOf(v) == IF IsNullish(v) THEN <<>> ELSE Trim(ToStr(v))

\* the text of one attribute value in the Body HTML
translatedParts(parts) == Join([i \in 1..Len(parts) |-> translateValue(Trim(parts[i]))], <<","," ">>)

\* the text of a value that is not an array, sv its trimmed text
scalarText(skip, sv) ==
  IF ~skip /\ HasKey(VALUE_TRANSLATIONS, sv) THEN GetKey(VALUE_TRANSLATIONS, sv)
  ELSE IF ~skip /\ HasChar(sv, ",") THEN translatedParts(Split(sv, {","}))
  ELSE sv

attrTextOf(skip, val) ==
  IF IsArray(val)
  THEN Join([i \in 1..Len(val.a) |-> IF skip THEN svOf(val.a[i]) ELSE translateValue(svOf(val.a[i]))], <<","," ">>)
  ELSE scalarText(skip, svOf(val))

attrText(key, val) == attrTextOf(IsColour(key), val)

attrEntry(key, val) ==
  <<"<","l","i",">","<","s","t","r","o","n","g",">">> \o Lookup(ATTR_TRANSLATIONS, key, key) \o <<":","<","/","s","t","r","o","n","g",">"," ">> \o attrText(key, val) \o <<"<","/","l","i",">">>

attrEntriesFrom(ao) ==
  IF ao.t = "null" THEN <<>> ELSE [i \in 1..Len(ao.o) |-> attrEntry(ao.o[i][1], ao.o[i][2])]

attrEntriesOf(it) == attrEntriesFrom(attrObjOf(it))

\* f.name || f.title || '' for an object, String(f) otherwise
featName(f) ==
  IF Truthy(f) /\ TypeofObject(f) THEN OrElse(OrElse(Prop(f, fName), Prop(f, fTitle)), EmptyStr)
  ELSE Str(ToStr(f))

featEntry(text) == <<"<","l","i",">">> \o Lookup(FEATURE_TRANSLATIONS, text, text) \o <<"<","/","l","i",">">>

featEntriesFrom(feats) == [i \in 1..Len(feats) |-> featEntry(ToStr(feats[i]))]

featNames(raw) == SelectSeq([i \in 1..Len(raw) |-> featName(raw[i])], Truthy)

featEntriesOf(it) ==
  IF Truthy(it) /\ Truthy(Field(it, fFeatures))
  THEN featEntriesFrom(featNames(safeParseMaybeList(Field(it, fFeatures))))
  ELSE <<>>

attrPart(attrEntries) == <<"<","p",">","<","s","t","r","o","n","g",">","D","a","t","e"," ","t","e","h","n","i","c","e",":","<","/","s","t","r","o","n","g",">","<","/","p",">","<","u","l",">">> \o Concat(attrEntries) \o <<"<","/","u","l",">">>
featPart(featEntries) == <<"<","p",">","<","s","t","r","o","n","g",">","D","o","t","a","r","i",":","<","/","s","t","r","o","n","g",">","<","/","p",">","<","u","l",">">> \o Concat(featEntries) \o <<"<","/","u","l",">">>

bodyHtml(attrEntries, featEntries) ==
  IF Len(attrEntries) > 0 /\ Len(featEntries) > 0 THEN attrPart(attrEntries) \o <<"<","h","r",">">> \o featPart(featEntries)
  ELSE IF Len(attrEntries) > 0 THEN attrPart(attrEntries)
  ELSE IF Len(featEntries) > 0 THEN featPart(featEntries)
  ELSE <<>>

featuresColumn(featEntries) ==
  IF Len(featEntries) > 0 THEN <<"<","u","l",">">> \o Concat(featEntries) \o <<"<","/","u","l",">">> ELSE <<>>

RECURSIVE mergeColumnsOverwriting(_, _, _)
\* a merge that assigns every column, also under a key the row has
mergeColumnsOverwriting(r, cols, i) ==
  IF i > Len(cols) THEN r
  ELSE mergeColumnsOverwriting(SetKey(r, cols[i][1], cols[i][2]), cols, i + 1)

RECURSIVE mergeColumns(_, _, _)
\* Object.keys(attributeColumns).forEach: a column is added only under a key
\* the row does not have
mergeColumns(r, cols, i) ==
  IF i > Len(cols) THEN r
  ELSE mergeColumns(IF HasKey(r, cols[i][1]) THEN r ELSE SetKey(r, cols[i][1], cols[i][2]), cols, i + 1)

parsedDealerName(parsed) ==
  IF parsed.ok /\ Truthy(parsed.v) /\ TypeofObject(parsed.v) THEN OrElse(Prop(parsed.v, fName), EmptyStr)
  ELSE EmptyStr

dealerNameFrom(it, dd) ==
  IF ~(Truthy(it) /\ Truthy(dd)) THEN EmptyStr
  ELSE IF TypeofObject(dd) THEN OrElse(Prop(dd, fName), EmptyStr)
  ELSE IF dd.t = "str" THEN parsedDealerName(JSONParse(dd.s))
  ELSE EmptyStr

dealerName(it) == dealerNameFrom(it, Field(it, fDealerDetails))

carUrl(it) == IF Truthy(it) /\ Truthy(Field(it, fUrl)) THEN Str(ToStr(Field(it, fUrl))) ELSE EmptyStr

nestedNoVat(price) ==
  IF TypeofObject(price) /\ price.t # "null"
     /\ Truthy(Prop(price, fWithoutVAT)) /\ TypeofObject(Prop(price, fWithoutVAT))
  THEN OrElse(Prop(Prop(price, fWithoutVAT), fAmount), EmptyStr)
  ELSE EmptyStr

flatNoVat(it, nested) ==
  IF ~Truthy(nested) /\ HasOwn(it, kPriceNoVat) THEN Field(it, kPriceNoVat) ELSE nested

priceNoVatOf(it) ==
  IF ~Truthy(it) THEN EmptyStr ELSE OrElse(flatNoVat(it, nestedNoVat(Field(it, fPrice))), EmptyStr)

\* the value under 'Power' of the attributes, undefined when there is none
parsedPower(parsed) ==
  IF parsed.ok /\ Truthy(parsed.v) /\ TypeofObject(parsed.v) THEN Prop(parsed.v, fPower) ELSE Undef

powerValFrom(it, a) ==
  IF ~(Truthy(it) /\ Truthy(a)) THEN Undef
  ELSE IF a.t = "obj" THEN Prop(a, fPower)
  ELSE IF a.t = "str" THEN parsedPower(JSONParse(a.s))
  ELSE Undef

powerValOf(it) == powerValFrom(it, Field(it, fAttributes))

IsWordChar(c) == IsLetter(c) \/ IsDigit(c) \/ c = "_"

RECURSIVE SkipPowerRun(_, _)
\* the end of \d+[\d.,]* from a digit at position i
SkipPowerRun(s, i) ==
  IF i <= Len(s) /\ (IsDigit(s[i]) \/ s[i] \in {".", ","}) THEN SkipPowerRun(s, i + 1) ELSE i

\* /\b(\d+[\d.,]*)\s*kW/i matches from position i
PowerKwAt(s, i) ==
  /\ IsDigit(s[i])
  /\ (i = 1 \/ ~IsWordChar(s[i - 1]))
  /\ UnitAt(s, FirstNonSpace(s, SkipPowerRun(s, i)), <<"k","w">>)

\* /\((\d+[\d.,]*)\s*hp\)/i matches with its group from position i
PowerHpAt(s, i) ==
  /\ IsDigit(s[i])
  /\ i > 1 /\ s[i - 1] = "("
  /\ LET u == FirstNonSpace(s, SkipPowerRun(s, i))
     IN UnitAt(s, u, <<"h","p">>) /\ u + 2 <= Len(s) /\ s[u + 2] = ")"

\* the group of the leftmost match followed by the unit, '' without a match
powerGroup(s, At(_, _), unit) ==
  IF \E i \in 1..Len(s) : At(s, i)
  THEN LET i == CHOOSE a \in 1..Len(s) : At(s, a) /\ \A b \in 1..(a - 1) : ~At(s, b)
       IN SubSeq(s, i, SkipPowerRun(s, i) - 1) \o unit
  ELSE <<>>

powerKwFrom(pv) == IF Truthy(pv) THEN powerGroup(ToStr(pv), PowerKwAt, <<" ","k","W">>) ELSE <<>>
powerHpFrom(pv) == IF Truthy(pv) THEN powerGroup(ToStr(pv), PowerHpAt, <<" ","h","p">>) ELSE <<>>

\* the kW column as the paired-unit extractor would give it
powerKwUnitless(it) == extractKwHp(powerValOf(it), "kw")

powerKwOf(it) == powerKwFrom(powerValOf(it))
powerHpOf(it) == powerHpFrom(powerValOf(it))

\* the truthy values of the fields features/0 .. features/(n-1), as strings
StrTexts(vs) == [i \in 1..Len(vs) |-> ToStr(vs[i])]

indexedFeatures(it, n) ==
  StrTexts(SelectSeq([i \in 1..n |-> Field(it, <<"f","e","a","t","u","r","e","s","/">> \o NatToStr(i - 1))], Truthy))

\* String(f.name || f.title) for an object with one of them, String(f)
\* otherwise
listedName(f) ==
  IF TypeofObject(f) /\ (Truthy(Prop(f, fName)) \/ Truthy(Prop(f, fTitle)))
  THEN ToStr(OrElse(Prop(f, fName), Prop(f, fTitle)))
  ELSE ToStr(f)

listedNames(kept) == [i \in 1..Len(kept) |-> listedName(kept[i])]

allFeaturesOf(it) ==
  listedNames(SelectSeq(IF Truthy(Field(it, fFeatures)) THEN safeParseMaybeList(Field(it, fFeatures)) ELSE <<>>,
                        Truthy))
  \o indexedFeatures(it, 100)

driveOfText(txt) ==
  IF txt = <<"r","e","a","r"," ","w","h","e","e","l"," ","d","r","i","v","e">> THEN <<"4","x","2"," ","(","R","W","D",")">>
  ELSE IF txt = <<"f","r","o","n","t"," ","w","h","e","e","l"," ","d","r","i","v","e">> THEN <<"2","x","4"," ","(","F","W","D",")">>
  ELSE IF txt = <<"f","o","u","r","-","w","h","e","e","l"," ","d","r","i","v","e">> \/ txt = <<"f","o","u","r"," ","w","h","e","e","l"," ","d","r","i","v","e">> THEN <<"4","x","4"," ","(","A","W","D",")">>
  ELSE <<>>

\* the code of the first feature that names a drive
firstDrive(codes) ==
  IF \E i \in 1..Len(codes) : Len(codes[i]) > 0
  THEN codes[CHOOSE i \in 1..Len(codes) : Len(codes[i]) > 0 /\ \A j \in 1..(i - 1) : Len(codes[j]) = 0]
  ELSE <<>>

\* the code of the last feature that names a drive
lastDrive(codes) ==
  IF \E i \in 1..Len(codes) : Len(codes[i]) > 0
  THEN codes[CHOOSE i \in 1..Len(codes) : Len(codes[i]) > 0 /\ \A j \in (i + 1)..Len(codes) : Len(codes[j]) = 0]
  ELSE <<>>

\* driveCodeFrom without the break: the last match wins
driveCodeLast(feats) == lastDrive([i \in 1..Len(feats) |-> driveOfText(ToLowerCase(Trim(feats[i])))])

driveCodeFrom(feats) == firstDrive([i \in 1..Len(feats) |-> driveOfText(ToLowerCase(Trim(feats[i])))])

driveCodeOf(it) == IF Truthy(it) THEN driveCodeFrom(allFeaturesOf(it)) ELSE <<>>

\* finishRow with the two deletions aimed at 'Variant SKU' and 'Tags'
finishRowDeletingCore(r, it) ==
  DeleteKey(DeleteKey(SetKey(SetKey(r, kDealerDetails, dealerName(it)), kCarUrl, carUrl(it)), kVariantSKU), kTags)

\* dropUnwanted without its two deletions
dropNothing(r) == r

\* if (row.hasOwnProperty('Variant ID')) delete row['Variant ID'], and the
\* same for 'ITP'
dropUnwanted(r) == DeleteKey(DeleteKey(r, kVariantID), kITP)

\* the statements after the merge of the attribute columns
finishRow(r, it) ==
  LET r1 == SetKey(SetKey(r, kDealerDetails, dealerName(it)), kCarUrl, carUrl(it))
      r2 == dropUnwanted(r1)
      r3 == SetKey(r2, kPriceNoVat, priceNoVatOf(it))
      r4 == SetKey(SetKey(r3, kPutereKw, Str(powerKwOf(it))), kPutereCp, Str(powerHpOf(it)))
      r5 == SetKey(r4, kTransmisie, Str(driveCodeOf(it)))
  IN SetKey(SetKey(r5, kTva, Str(<<"D","e","d","u","c","t","i","b","i","l","e">>)), kTemplateSuffix, Str(<<"p","r","o","d","u","s","_","s","e","r","v","i","c","i","i">>))

\* the statements from brand and model to the Features column
\* Title, Handle, Variant SKU and Variant ID
identityColumns(r, it, idVal) ==
  SetKey(SetKey(SetKey(SetKey(r, kTitle, Str(titleOf(it))), kHandle, Str(handleOf(it))),
                kVariantSKU, Str(idVal)), kVariantID, Str(idVal))

\* Body HTML and Features
htmlColumns(r, attrEntries, featEntries) ==
  SetKey(SetKey(r, kBodyHTML, Str(bodyHtml(attrEntries, featEntries))), kFeatures, Str(featuresColumn(featEntries)))

\* the columns from Title to Features on the row bm.row, the tags bm.tags
coreColumnsOf(bm, it) ==
  htmlColumns(SetKey(altText(SetKey(vendor(variantPrice(identityColumns(bm.row, it, idValOf(it)),
                                                        numValOf(amountStrOf(it))),
                                           it),
                                    kImageSrc, imageSrc(it))),
                     kTags, Str(tagsText(bm.tags))),
              attrEntriesOf(it), featEntriesOf(it))

coreRowOf(bm, it) == [tags |-> bm.tags, row |-> coreColumnsOf(bm, it)]

coreRow(st, it) == coreRowOf(brandModel(st, it), it)

(***************************************************************************)
(* mapToNewMetafields and buildMetafieldsRow as one call                   *)
(***************************************************************************)
\* the body of the loop over Object.keys(row) for one key
renameKey(newRow, key, val) ==
  IF key \in ALWAYS_KEEP_FIELDS THEN SetKey(newRow, key, val)
  ELSE IF Len(Lookup(NEW_METAFIELD_MAPPINGS, key, <<>>)) > 0
    THEN SetKey(newRow, Lookup(NEW_METAFIELD_MAPPINGS, key, <<>>), val)
  ELSE newRow

RECURSIVE renameFrom(_, _, _)
renameFrom(r, i, newRow) ==
  IF i > Len(r) THEN newRow ELSE renameFrom(r, i + 1, renameKey(newRow, r[i][1], r[i][2]))

mapToNewMetafields(r) == renameFrom(r, 1, <<>>)

\* const row = {}; const tagsSet = new Set(): every call starts from its own
\* empty row and empty set, whatever the call before it left
\* a call that starts from what the call before it left behind
carriedRowState(prev) == prev

newRowState(prev) == [row |-> <<>>, tags |-> <<>>]

\* the end of buildMetafieldsRow for the row and tags st of the core
\* columns and the outcome e of expandAttributesToColumns
builtFrom(it, st, e) ==
  IF e.thrown THEN [thrown |-> TRUE, tags |-> st.tags, row |-> <<>>]
  ELSE [thrown |-> FALSE, tags |-> st.tags, row |-> finishRow(mergeColumns(st.row, e.cols, 1), it)]

\* buildMetafieldsRow(item, mappingList) called after a call that left prev:
\* thrown is TRUE where it raises, row is the returned row
buildMetafieldsRow(it, ml, prev) ==
  builtFrom(it, coreRow(applyMappings(newRowState(prev), it, ml, 1), it), expandAttributesToColumns(it))

(***************************************************************************)
(* The handle of mapItemToShopifyTemplate, mapToShopify and the            *)
(* /api/images-exploded handler.  All three call normalizeItem(item)       *)
(* first and then read item.title, so a record that is null or undefined,  *)
(* or one normalizeItem fails on, raises before a handle exists.           *)
(***************************************************************************)
\* (item.title || '').toString().trim() and the slug and idStr statements
\* that follow it, the same text in the three functions
\* (item.id != null) ? String(item.id).trim() : ''
otherIdStr(id) == IF ~IsNullish(id) THEN Trim(ToStr(id)) ELSE <<>>

otherHandle(it) ==
  IF IsNullish(it) \/ normalizeItem(it).thrown THEN [thrown |-> TRUE, handle |-> <<>>]
  ELSE [thrown |-> FALSE,
        handle |-> joinHandle(slugOf(ToStr(OrElse(Field(it, fTitle), EmptyStr))), otherIdStr(Field(it, fId)))]

mapItemToShopifyTemplateHandle(it) == otherHandle(it)
mapToShopifyHandle(it) == otherHandle(it)
imagesExplodedHandle(it) == otherHandle(it)

(***************************************************************************)
(* The records and mapping lists the model runs on                         *)
(***************************************************************************)
MaxAttrs == 2
MaxK == 40
MaxTitleLen == 2
MaxIdLen == 1
MaxFeatures == 2

SeqsUpTo(S, n) == UNION {[1..k -> S] : k \in 0..n}

Mapping(source, dests) == [source |-> source, dests |-> dests]

NoMappings == <<>>
FullMappings ==
  << Mapping(fTitle, <<kTags, kImageAltText, <<>>, <<" ","C","u","s","t","o","m"," ","T","i","t","l","e"," ">>>>),
     Mapping(<<"m","a","p","p","e","d","_","p","r","i","c","e">>, <<kVariantPrice>>),
     Mapping(kAttributesPower, <<kPutereKw, kPutereCp, <<"M","e","t","a","f","i","e","l","d",":"," ","c","u","s","t","o","m",".","p","u","t","e","r","e"," ","[","s","i","n","g","l","e","_","l","i","n","e","_","t","e","x","t","_","f","i","e","l","d","]">>>>),
     Mapping(fSellerId, <<kVendor>>),
     Mapping(fBrand, <<<<"P","u","t","e","r","e">>, kTags>>) >>

\* destinations the statements after the mapping step write or delete
ReservedMappings ==
  << Mapping(fModel, <<<<"I","T","P">>, kVariantID, kTva, kTemplateSuffix>>),
     Mapping(fBrand, <<kPutereKw, kPutereCp, kTransmisie>>) >>

\* destinations named by several entries, one of them without a value
RepeatedMappings ==
  << Mapping(fTitle, <<<<"C","u","s","t","o","m">>, kVendor, kTags, <<" "," ">>, kPutereCp>>),
     Mapping(fBrand, <<<<" ","C","u","s","t","o","m"," ">>, kTags, <<>>>>),
     Mapping(<<"m","i","s","s","i","n","g">>, <<<<"C","u","s","t","o","m">>, kTags, kVendor, kImageAltText>>),
     Mapping(kAttributesPower, <<kPutereKw, <<"C","u","s","t","o","m">>, kPutereCp, <<"M","e","t","a","f","i","e","l","d",":"," ","p","u","t","e","r","e","_","c","p"," ","a","n","d"," ","p","u","t","e","r","e","_","k","w">>, <<"M","e","t","a","f","i","e","l","d",":"," ","c","u","s","t","o","m",".","p","o","w","e","r">>>>),
     Mapping(fModel, <<kVendor, kPutereKw, <<" ","T","a","g","s"," ">>, kVariantPrice>>),
     Mapping(fSellerId, <<<<"C","u","s","t","o","m">>>>) >>

Attr(name, value) == Obj(<< <<fName, Str(name)>>, <<fValue, value>> >>)

AttrElems ==
  { Null,
    Attr(<<"P","o","w","e","r">>, Str(<<"1","1","0"," ","k","W"," ","(","1","5","0"," ","h","p",")">>)),
    Attr(<<"T","a","g","s">>, Str(<<"U","s","e","d"," ","v","e","h","i","c","l","e">>)),
    Attr(<<"A","i","r","b","a","g","s">>, Arr(<<Str(<<"F","r","o","n","t">>), Str(<<"S","i","d","e">>)>>)),
    Str(<<"F","u","e","l",":","D","i","e","s","e","l">>) }

PlainAttributes ==
  Obj(<< <<<<"P","o","w","e","r">>, Str(<<"1","1","0"," ","k","W"," ","(","1","5","0"," ","h","p",")">>)>>,
         <<<<"T","i","t","l","e">>, Str(<<"O","t","h","e","r"," ","t","i","t","l","e">>)>>,
         <<<<"C","o","l","o","u","r">>, Str(<<"B","l","a","c","k",","," ","m","e","t","a","l","l","i","c">>)>>,
         <<<<"F","u","e","l">>, Str(<<"D","i","e","s","e","l",","," ","E","u","r","o","6">>)>>,
         <<<<"H","U">>, Str(<<"N","e","w">>)>> >>)

TaxAttributes ==
  Obj(<< <<<<"V","e","h","i","c","l","e"," ","t","a","x">>, Str(<<"1","2","1"," ","E","U","R">>)>>,
         <<<<"H","U">>, Str(<<"N","e","w">>)>>,
         <<<<"P","o","w","e","r">>, Str(<<"8","5"," ","K","W"," ","(","1","1","6"," ","H","p",")">>)>> >>)

ReservedAttrValues ==
  { PlainAttributes, TaxAttributes, Str(JSONStringify(TaxAttributes)),
    Arr(<<Attr(<<"H","U">>, Str(<<"0","3","/","2","0","2","6">>)), Attr(<<"V","e","h","i","c","l","e"," ","t","a","x">>, Num(121)), Attr(<<"P","o","w","e","r">>, Str(<<"1","1","0"," ","k","W"," ","(","1","5","0"," ","h","p",")">>))>>),
    Obj(<< <<<<"P","o","w","e","r">>, Str(<<"1",",","5"," ","k","W">>)>> >>),
    Obj(<< <<<<"P","o","w","e","r">>, Str(<<"1","2","3","4","5"," ","k","W"," ","(","6"," ","h","p",")">>)>> >>),
    Obj(<< <<<<"P","o","w","e","r">>, Str(<<"x","9","0","k","W"," ","(","1","2","2",".","5"," "," ","h","p",")">>)>> >>),
    Obj(<< <<<<"P","o","w","e","r">>, Num(110)>> >>),
    Obj(<< <<<<"I","T","P">>, Str(<<"x">>)>>, <<<<"V","a","r","i","a","n","t"," ","I","D">>, Str(<<"y">>)>> >>) }

AttrValues ==
  {Arr(a) : a \in SeqsUpTo(AttrElems, MaxAttrs)}
  \cup {Str(JSONStringify(Arr(a))) : a \in SeqsUpTo(AttrElems, MaxAttrs)}
  \cup { PlainAttributes, Str(JSONStringify(PlainAttributes)),
         Str(<<"P","o","w","e","r",":","1","1","0"," ","k","W"," ","(","1","5","0"," ","h","p",")",";"," ","F","u","e","l",":","D","i","e","s","e","l","|","T","i","t","l","e",":","z","z","z">>),
         Str(<<"{","b","a","d"," ","j","s","o","n">>), Num(7) }

DealerValues ==
  { Obj(<< <<fName, Str(<<"A","u","t","o"," ","S","R","L">>)>>, <<<<"c","i","t","y">>, Str(<<"C","l","u","j">>)>> >>),
    Str(<<"{","\"","n","a","m","e","\"",":","\"","A","u","t","o"," ","S","R","L","\"",",","\"","p","h","o","n","e","\"",":","\"","0","7","0","0","\"","}">>),
    Str(<<"{","b","a","d"," ","j","s","o","n">>), Str(<<"n","u","l","l">>), Str(<<"5">>), Arr(<<>>), Num(5), Null }

BaseEntries ==
  << <<fTitle, Str(<<"V","W"," ","G","o","l","f"," ","2",".","0"," ","T","D","I">>)>>,
     <<fId, Num(101)>>,
     <<fUrl, Str(<<"h","t","t","p","s",":","/","/","m",".","d","e","/","1","0","1">>)>>,
     <<fBrand, Str(<<"V","W">>)>>,
     <<fModel, Str(<<"G","o","l","f">>)>>,
     <<fSellerId, Num(9)>>,
     <<fPrice, Obj(<< <<fAmount, Num(20000)>>, <<fCurrency, Str(<<"E","U","R">>)>>,
                      <<fWithoutVAT, Obj(<< <<fAmount, Num(16807)>> >>)>> >>)>>,
     <<fImages, Arr(<<Obj(<< <<fUrl, Str(<<"h","t","t","p","s",":","/","/","i","/","1",".","j","p","g">>)>> >>), Str(<<"h","t","t","p","s",":","/","/","i","/","2",".","j","p","g">>), Null>>)>>,
     <<fFeatures, Arr(<<Str(<<"A","B","S">>), Obj(<< <<fName, Str(<<"R","e","a","r"," ","w","h","e","e","l"," ","d","r","i","v","e">>)>> >>), Obj(<< <<fTitle, Num(5)>> >>)>>)>>,
     <<kAttributesPower, Str(<<"1","1","0"," ","k","W"," ","(","1","5","0"," ","h","p",")">>)>>,
     <<<<"f","e","a","t","u","r","e","s","/","0">>, Str(<<"F","r","o","n","t"," ","w","h","e","e","l"," ","d","r","i","v","e">>)>> >>

ReservedItems == {Obj(Append(BaseEntries, <<fAttributes, a>>)) : a \in ReservedAttrValues}

FeatureElems ==
  { Str(<<"A","B","S">>), Str(<<"F","r","o","n","t"," ","w","h","e","e","l"," ","d","r","i","v","e">>), Str(<<" ","F","o","u","r","-","W","h","e","e","l"," ","D","r","i","v","e"," ">>), Str(<<"R","e","a","r"," ","w","h","e","e","l"," ","d","r","i","v","e"," ","s","y","s","t","e","m">>),
    Obj(<< <<fName, Str(<<"R","e","a","r"," ","w","h","e","e","l"," ","d","r","i","v","e">>)>> >>), Obj(<< <<fTitle, Str(<<"f","o","u","r"," ","w","h","e","e","l"," ","d","r","i","v","e">>)>> >>), Null }

FeatureValues ==
  {Arr(a) : a \in SeqsUpTo(FeatureElems, MaxFeatures)}
  \cup { Undef, Str(<<"A","B","S",";"," ","F","r","o","n","t"," ","w","h","e","e","l"," ","d","r","i","v","e",","," ","R","e","a","r"," ","w","h","e","e","l"," ","d","r","i","v","e">>), Str(<<"[","\"","E","S","P","\"",",","\"","F","O","U","R"," ","W","H","E","E","L"," ","D","R","I","V","E","\"","]">>),
         Str(<<"R","e","a","r"," ","w","h","e","e","l"," ","d","r","i","v","e">>), Str(<<"{","\"","n","a","m","e","\"",":","\"","F","r","o","n","t"," ","w","h","e","e","l"," ","d","r","i","v","e","\"","}">>) }

\* features/i fields, not in the order of their indexes
IndexedFeatures ==
  { <<>>,
    << <<<<"f","e","a","t","u","r","e","s","/","0">>, Str(<<"R","e","a","r"," ","w","h","e","e","l"," ","d","r","i","v","e">>)>> >>,
    << <<<<"f","e","a","t","u","r","e","s","/","5">>, Str(<<"F","r","o","n","t"," ","w","h","e","e","l"," ","d","r","i","v","e">>)>>, <<<<"f","e","a","t","u","r","e","s","/","2">>, Str(<<"f","o","u","r","-","w","h","e","e","l"," ","d","r","i","v","e">>)>> >>,
    << <<<<"f","e","a","t","u","r","e","s","/","1","0","0">>, Str(<<"F","r","o","n","t"," ","w","h","e","e","l"," ","d","r","i","v","e">>)>>, <<<<"f","e","a","t","u","r","e","s","/","9","9">>, Str(<<>>)>> >> }

DriveEntries(f, ix) ==
  << <<fTitle, Str(<<"C","a","r">>)>>, <<fId, Num(7)>> >>
  \o (IF f.t = "undef" THEN <<>> ELSE << <<fFeatures, f>> >>) \o ix

DriveItems == {Obj(DriveEntries(f, ix)) : f \in FeatureValues, ix \in IndexedFeatures}

ShapeItems ==
  {Undef, Null, Obj(<<>>), Obj(BaseEntries)}
  \cup {Obj(Append(BaseEntries, <<fAttributes, a>>)) : a \in AttrValues}
  \cup {Obj(Append(BaseEntries, <<fDealerDetails, d>>)) : d \in DealerValues}
  \cup { Obj(<< <<fTitle, Obj(<< <<<<"t","e","x","t">>, Str(<<"x">>)>> >>)>>, <<fPrice, Str(<<"E","U","R"," ","3","9",".","9","0","0",",","5","0">>)>>,
                <<fImages, Str(<<"h","t","t","p","s",":","/","/","i","/","1",".","j","p","g",","," ","h","t","t","p","s",":","/","/","i","/","2",".","j","p","g">>)>>, <<fFeatures, Str(<<"A","B","S",";"," ","E","S","P">>)>> >>) }

\* amounts whose VAT adjustment a * 1.21 / 1.19 is a whole number, and the
\* amounts on both sides of every commission threshold
Amounts ==
  {119 * k : k \in 1..MaxK}
  \cup {20000, 100000, 24999, 25000, 39999, 40000, 59999, 60000, 89999, 90000, 249999, 250000, 300000}

AmountTexts ==
  { <<"1","5",",","8","7","3",".","1","1">>, <<"1","5","8","7","3",",","1","1">>, <<"1","5","8","7","3",".","1","1">>, <<"1",".","2","3","4",",","5","6">>, <<"1","2"," ","5","0","0"," ","U+20AC">>, <<"U+20AC"," ","3","9",".","9","0","0">>,
    <<"2","0","0","0","0"," ","E","U","R">>, <<"8","5","0","0","k","m">>, <<"a","b","c">>, <<" "," "," ">>, <<"0">>, <<"0",",","0","0">> }

PriceValues ==
  {Obj(<< <<fAmount, Num(a)>> >>) : a \in Amounts}
  \cup {Obj(<< <<fAmount, Str(s)>> >>) : s \in AmountTexts}
  \cup {Obj(<< <<fTotal, Obj(<< <<fAmount, Str(s)>> >>)>> >>) : s \in AmountTexts}
  \cup {Obj(<< <<fValue, Str(s)>> >>) : s \in AmountTexts}
  \cup { Obj(<< <<fAmount, Num(0)>>, <<fTotal, Obj(<< <<fAmount, Str(<<"1","0","0">>)>> >>)>>, <<fValue, Str(<<"2","0","0">>)>> >>),
         Obj(<< <<fAmount, Str(<<>>)>>, <<fTotal, Str(<<"x">>)>>, <<fValue, Str(<<"2","0","0">>)>> >>),
         Obj(<< <<fAmount, Str(<<"5","0">>)>>, <<fTotal, Obj(<< <<fAmount, Str(<<"1","0","0">>)>> >>)>>, <<fValue, Str(<<"2","0","0">>)>> >>),
         Obj(<<>>), Str(<<"1","2","0","0","0">>), Num(12000), Null }

FlatValues == {Undef, Str(<<"3","0","0">>), Str(<<"1","5","8","7","3",",","1","1">>)}
MappedPrices == {Undef, Str(<<"9","9","9">>), Num(0), Bool(FALSE), Str(<<"n","/","a">>)}

PriceEntries(p, f, m) ==
  << <<fTitle, Str(<<"C","a","r">>)>>, <<fId, Num(7)>>, <<fPrice, p>> >>
  \o (IF f.t = "undef" THEN <<>> ELSE << <<kPriceTotalAmount, f>> >>)
  \o (IF m.t = "undef" THEN <<>> ELSE << <<<<"m","a","p","p","e","d","_","p","r","i","c","e">>, m>> >>)

PriceItems ==
  {Obj(PriceEntries(p, Undef, Undef)) : p \in PriceValues}
  \cup {Obj(PriceEntries(p, f, m)) :
          p \in {Obj(<< <<fAmount, Str(s)>> >>) : s \in {<<"1","5","8","7","3",",","1","1">>, <<"a","b","c">>, <<"0">>}} \cup {Obj(<<>>), Str(<<"1","2","0","0","0">>)},
          f \in FlatValues, m \in MappedPrices}

TitleChars == {"A", "1", " ", "-"}
IdChars == {"7", "X", " "}

Titles ==
  {Str(s) : s \in SeqsUpTo(TitleChars, MaxTitleLen)}
  \cup {Undef, Str(<<"V","W"," ","G","o","l","f"," ","2",".","0"," ","T","D","I">>), Str(<<"U+0160","k","o","d","a"," "," ","O","c","t","a","v","i","a","!">>), Num(2024)}
Ids ==
  {Str(s) : s \in SeqsUpTo(IdChars, MaxIdLen)} \cup {Undef, Null, Num(42), Num(0), Str(<<" ","7"," ">>)}

HandleEntries(t, i) ==
  (IF t.t = "undef" THEN <<>> ELSE << <<fTitle, t>> >>) \o (IF i.t = "undef" THEN <<>> ELSE << <<fId, i>> >>)

HandleItems == {Obj(HandleEntries(t, i)) : t \in Titles, i \in Ids}

\* attributes with the same display name more than once
DuplicateAttrValues ==
  { Arr(<<Attr(<<"P","o","w","e","r">>, Str(<<"1","1","0"," ","k","W"," ","(","1","5","0"," ","h","p",")">>)), Attr(<<"P","u","t","e","r","e">>, Str(<<"9","9","9">>)), Attr(<<"P","o","w","e","r">>, Str(<<"7"," ","k","W">>))>>),
    Arr(<<Attr(<<"I","T","P">>, Str(<<"x">>)), Attr(<<"H","U">>, Str(<<"0","3","/","2","0","2","6">>)), Attr(<<" ","H","U"," ">>, Str(<<"N","e","w">>))>>),
    Arr(<<Attr(<<"C","o","l","o","u","r">>, Str(<<"B","l","a","c","k",","," ","m","e","t","a","l","l","i","c">>)), Attr(<<"C","u","l","o","a","r","e">>, Str(<<"R","e","d">>)), Attr(<<>>, Str(<<"z","z","z">>)),
          Attr(<<"C","o","l","o","u","r">>, Str(<<"B","l","u","e">>))>>),
    Str(<<"F","u","e","l",":","D","i","e","s","e","l",";"," ","F","u","e","l",":","P","e","t","r","o","l","|","C","o","m","b","u","s","t","i","b","i","l",":","G","a","s",";","F","u","e","l">>) }

DuplicateItems ==
  {Obj(<< <<fTitle, Str(<<"C","a","r">>)>>, <<fId, Num(7)>>, <<fAttributes, a>> >>) : a \in DuplicateAttrValues}

MaxShortLen == 3
ShortChars == {"a", "1", ",", " "}

\* attribute values for the shortening of expandAttributesToColumns
ShortValues ==
  {Str(s) : s \in SeqsUpTo(ShortChars, MaxShortLen)}
  \cup {Str(s) : s \in { <<"1",",","3","9","5"," ","c","c","m">>, <<"0","2","5","7","E">>, <<"1","2"," ","k","m">>, <<"1",".","5","l"," ","x">>, <<"2","/","2","0","2","4",",","a","b","c"," ","d","e","f">>, <<"1","1","0"," ","k","W"," ","(","1","5","0"," ","h","p",")">>,
                         <<"U","s","e","d"," ","v","e","h","i","c","l","e">>, <<"P","e","t","r","o","l",","," ","E","1","0","-","e","n","a","b","l","e","d">>, <<"B","l","a","c","k",","," ","m","e","t","a","l","l","i","c">>, <<"a","b","c",",">>, <<","," ","a","b","c">>,
                         <<"a"," ","b",","," ","1",","," ","c">>, <<"A","u","t","o","m","a","t","i","c"," ","c","l","i","m","a","t","i","s","a","t","i","o","n",","," ","2"," ","z","o","n","e","s">>, <<"x"," ",",","y"," ","z">>, <<"N","e","w">>, <<"D","i","e","s","e","l">>,
                         <<"1",",",",","2",".",".","/","/","3"," ","a">>, <<" "," ","E","s","t","a","t","e"," ","c","a","r"," "," ">> }}
  \cup { Num(110), Null, Bool(TRUE), Arr(<<>>), Arr(<<Str(<<"1",",","3","9","5"," ","c","c","m">>), Str(<<"x">>)>>), Arr(<<Str(<<"U","s","e","d",","," ","v","e","h","i","c","l","e">>)>>) }

ShortItems ==
  {Obj(<< <<fTitle, Str(<<"C","a","r">>)>>, <<fId, Num(7)>>,
          <<fAttributes, Obj(<< <<<<"V","e","h","i","c","l","e"," ","c","o","n","d","i","t","i","o","n">>, v>>, <<<<"C","o","l","o","u","r">>, v>> >>)>> >>) : v \in ShortValues}

\* records with and without the values the entries of RepeatedMappings read
RepeatedItems ==
  { Obj(BaseEntries), Obj(<<>>), Null,
    Obj(<< <<fTitle, Str(<<"C","a","r">>)>>, <<fBrand, Str(<<>>)>>, <<fModel, Null>>, <<fSellerId, Num(0)>> >>),
    Obj(<< <<fTitle, Num(0)>>, <<fBrand, Bool(FALSE)>>, <<kAttributesPower, Str(<<"8","5"," ","k","W">>)>>, <<fModel, Str(<<"G","o","l","f">>)>> >>),
    Obj(<< <<fBrand, Str(<<"V","W">>)>>, <<fModel, Str(<<"V","W">>)>>, <<fSellerId, Str(<<"V","W">>)>>, <<kAttributesPower, Num(110)>> >>) }

Inputs ==
  {[item |-> it, ml |-> ml] : it \in ShapeItems, ml \in {NoMappings, FullMappings}}
  \cup {[item |-> it, ml |-> FullMappings] : it \in PriceItems}
  \cup {[item |-> it, ml |-> NoMappings] : it \in HandleItems}
  \cup {[item |-> it, ml |-> ml] : it \in ReservedItems, ml \in {NoMappings, FullMappings, ReservedMappings}}
  \cup {[item |-> it, ml |-> NoMappings] : it \in DriveItems}
  \cup {[item |-> it, ml |-> NoMappings] : it \in DuplicateItems \cup ShortItems}
  \cup {[item |-> it, ml |-> RepeatedMappings] : it \in RepeatedItems}

(***************************************************************************)
(* The state machine: one of the functions is applied to the record.  A   *)
(* call of buildMetafieldsRow is four steps that follow one another; the   *)
(* other calls are one step each and leave their outcome in the variable   *)
(* call.                                                                   *)
(***************************************************************************)
NoCall == [op |-> "none", thrown |-> FALSE, out |-> <<>>, handle |-> <<>>]

\* the outcome r of normalizeItem, and the outcome r of one of the three
\* functions op that build a handle
Normalized(r) == [op |-> "normalizeItem", thrown |-> r.thrown, out |-> r.out, handle |-> <<>>]
Handled(op, r) == [op |-> op, thrown |-> r.thrown, out |-> <<>>, handle |-> r.handle]

\* the row and the set of tags become those of st
RowAndTags(st) == row' = st.row /\ tagsSet' = st.tags

\* the amount text and its number
AmountOf(text) == amountStr' = text /\ numVal' = numValOf(text)

\* the outcome e of expandAttributesToColumns: its exception, or the merge
\* of its columns
Merged(e) ==
  IF e.thrown
  THEN pc' = "thrown" /\ UNCHANGED <<row, attributeColumns>>
  ELSE pc' = "merged" /\ attributeColumns' = e.cols /\ row' = mergeColumns(row, e.cols, 1)

Init ==
  /\ \E inp \in Inputs : item = inp.item /\ mappingList = inp.ml
  /\ pc = "start"
  /\ row = <<>>
  /\ tagsSet = <<>>
  /\ amountStr = <<>>
  /\ numVal = NaN
  /\ attributeColumns = <<>>
  /\ call = NoCall
  /\ exported = <<>>
  /\ WebIdle
  /\ given = Undef
  /\ result = Undef

\* normalizeItem(item)
NormalizeItem ==
  /\ pc = "start"
  /\ call' = Normalized(normalizeItem(item))
  /\ pc' = "returned"
  /\ UNCHANGED <<item, mappingList, row, tagsSet, amountStr, numVal, attributeColumns, exported, given, result, webVars>>

\* mapItemToShopifyTemplate(item, mapping), up to its handle
MapItemToShopifyTemplate ==
  /\ pc = "start"
  /\ call' = Handled("mapItemToShopifyTemplate", mapItemToShopifyTemplateHandle(item))
  /\ pc' = "returned"
  /\ UNCHANGED <<item, mappingList, row, tagsSet, amountStr, numVal, attributeColumns, exported, given, result, webVars>>

\* mapToShopify(item), up to its handle
MapToShopify ==
  /\ pc = "start"
  /\ call' = Handled("mapToShopify", mapToShopifyHandle(item))
  /\ pc' = "returned"
  /\ UNCHANGED <<item, mappingList, row, tagsSet, amountStr, numVal, attributeColumns, exported, given, result, webVars>>

\* one pass of the loop over the items in /api/images-exploded, up to its
\* handle
ImagesExploded ==
  /\ pc = "start"
  /\ call' = Handled("imagesExploded", imagesExplodedHandle(item))
  /\ pc' = "returned"
  /\ UNCHANGED <<item, mappingList, row, tagsSet, amountStr, numVal, attributeColumns, exported, given, result, webVars>>

\* buildMetafieldsRow: the mapping step
ApplyMappings ==
  /\ pc = "start"
  /\ RowAndTags(applyMappings(newRowState([row |-> row, tags |-> tagsSet]), item, mappingList, 1))
  /\ pc' = "mapped"
  /\ UNCHANGED <<item, mappingList, amountStr, numVal, attributeColumns, call, exported, given, result, webVars>>

\* buildMetafieldsRow: brand and model, Title, Handle, Variant SKU and ID,
\* Variant Price, Vendor, Image Src, Image Alt Text, Tags, Body HTML, Features
CoreColumns ==
  /\ pc = "mapped"
  /\ RowAndTags(coreRow([row |-> row, tags |-> tagsSet], item))
  /\ AmountOf(amountStrOf(item))
  /\ pc' = "core"
  /\ UNCHANGED <<item, mappingList, attributeColumns, call, exported, given, result, webVars>>

\* buildMetafieldsRow: expandAttributesToColumns(item) and the merge of its
\* columns; the exception of expandAttributesToColumns leaves the function
MergeAttributeColumns ==
  /\ pc = "core"
  /\ Merged(expandAttributesToColumns(item))
  /\ UNCHANGED <<item, mappingList, tagsSet, amountStr, numVal, call, exported, given, result, webVars>>

\* buildMetafieldsRow: the statements after the merge, to the return
FinishRow ==
  /\ pc = "merged"
  /\ row' = finishRow(row, item)
  /\ pc' = "done"
  /\ UNCHANGED <<item, mappingList, tagsSet, amountStr, numVal, attributeColumns, call, exported, given, result, webVars>>

\* mapDatasetToMetafields: the row of buildMetafieldsRow goes through
\* mapToNewMetafields
ExportRow ==
  /\ pc = "done"
  /\ exported' = mapToNewMetafields(row)
  /\ pc' = "exported"
  /\ UNCHANGED <<item, mappingList, row, tagsSet, amountStr, numVal, attributeColumns, call, given, result, webVars>>

Next ==
  \/ NormalizeItem
  \/ MapItemToShopifyTemplate
  \/ MapToShopify
  \/ ImagesExploded
  \/ ApplyMappings
  \/ CoreColumns
  \/ MergeAttributeColumns
  \/ FinishRow
  \/ ExportRow

Spec == Init /\ [][Next]_vars

(***************************************************************************)
(* mapDatasetToMetafields(items, mappingList): the batch.  Array.map       *)
(* visits the records by index; the steps below let any record without a   *)
(* row be the next one, and the renaming of one record happen between the  *)
(* steps of another, which covers that order and every other schedule.     *)
(* row and tagsSet hold what the latest call of buildMetafieldsRow left    *)
(* in its locals.                                                          *)
(***************************************************************************)
MaxBatch == 2

BatchItems ==
  { Obj(<<>>),
    Obj(Append(BaseEntries, <<fAttributes, PlainAttributes>>)),
    Obj(Append(BaseEntries, <<fAttributes, Arr(<<Null>>)>>)),
    Obj(<< <<fTitle, Str(<<"A","u","d","i"," ","A","4">>)>>, <<fId, Str(<<"A","4">>)>>, <<fBrand, Str(<<"A","u","d","i">>)>>, <<fAttributes, TaxAttributes>> >>) }

NoRow == [stage |-> "none", row |-> <<>>]

\* the outcome b of buildMetafieldsRow(items[i], mappingList)
Built(i, b) ==
  IF b.thrown
  THEN pc' = "thrown" /\ UNCHANGED <<row, tagsSet, result>>
  ELSE /\ pc' = pc
       /\ RowAndTags(b)
       /\ result' = [result EXCEPT ![i] = [stage |-> "built", row |-> b.row]]

BatchInit ==
  /\ \E b \in SeqsUpTo(BatchItems, MaxBatch) :
       /\ given = Arr(b)
       /\ mappingList = FullMappings
       /\ result = [i \in 1..Len(b) |-> NoRow]
  /\ pc = "batch"
  /\ item = Undef
  /\ row = <<>>
  /\ tagsSet = <<>>
  /\ amountStr = <<>>
  /\ numVal = NaN
  /\ attributeColumns = <<>>
  /\ call = NoCall
  /\ exported = <<>>
  /\ WebIdle

\* the callback of items.map: buildMetafieldsRow(item, mappingList)
BuildRecord ==
  /\ pc = "batch"
  /\ \E i \in 1..Len(result) :
       /\ result[i].stage = "none"
       /\ item' = given.a[i]
       /\ Built(i, buildMetafieldsRow(given.a[i], mappingList, [row |-> row, tags |-> tagsSet]))
  /\ UNCHANGED <<mappingList, amountStr, numVal, attributeColumns, call, exported, given, webVars>>

\* the callback of items.map: mapToNewMetafields of the row just built
RenameRecord ==
  /\ pc = "batch"
  /\ \E i \in 1..Len(result) :
       /\ result[i].stage = "built"
       /\ result' = [result EXCEPT ![i] = [stage |-> "exported", row |-> mapToNewMetafields(result[i].row)]]
  /\ UNCHANGED <<item, mappingList, pc, row, tagsSet, amountStr, numVal, attributeColumns, call, exported, given, webVars>>

\* items.map returns the list of the rows
ReturnRows ==
  /\ pc = "batch"
  /\ \A i \in 1..Len(result) : result[i].stage = "exported"
  /\ exported' = [i \in 1..Len(result) |-> result[i].row]
  /\ pc' = "exported"
  /\ UNCHANGED <<item, mappingList, row, tagsSet, amountStr, numVal, attributeColumns, call, given, result, webVars>>

BatchNext ==
  \/ BuildRecord
  \/ RenameRecord
  \/ ReturnRows

BatchSpec == BatchInit /\ [][BatchNext]_vars

(***************************************************************************)
(* loadMapping and loadMetafieldsMappingFile.  The file system and the     *)
(* workbook are the environment: exists is fs.existsSync of the path,      *)
(* sheets the worksheets of the workbook read from it, each a name and     *)
(* its rows of cell values, Null for an empty cell.  getWorksheet finds a  *)
(* sheet by its exact name; getCell past the end of a row is empty.        *)
(***************************************************************************)
MaxCols == 2

Raised == [thrown |-> TRUE, value |-> Undef]
Gave(v) == [thrown |-> FALSE, value |-> v]

\* String(cell.value || '').trim().toLowerCase()
headerText(cell) == ToLowerCase(Trim(ToStr(OrElse(cell, EmptyStr))))

\* the column number the loop of eachCell leaves in an index that starts
\* at -1: the last column of the set
lastCol(cols) == IF cols = {} THEN -1 ELSE CHOOSE c \in cols : \A d \in cols : d <= c

headerRow(rows) == IF Len(rows) = 0 THEN <<>> ELSE rows[1]

namedCol(hdr, name) == lastCol({c \in 1..Len(hdr) : headerText(hdr[c]) = name})
startingCol(hdr, prefix) == lastCol({c \in 1..Len(hdr) : StartsWith(headerText(hdr[c]), prefix)})
includingCol(hdr, part) == lastCol({c \in 1..Len(hdr) : Includes(headerText(hdr[c]), part)})

\* row.getCell(idx).value
getCell(cells, idx) == IF idx \in 1..Len(cells) THEN cells[idx] ELSE Null

\* v ? String(v).trim() : ''
cellText(v) == IF Truthy(v) THEN Trim(ToStr(v)) ELSE <<>>

\* if (key && value) { mapping[key] = value; order.push(key) }
withPair(acc, key, value) ==
  IF Len(key) > 0 /\ Len(value) > 0
  THEN [mapping |-> SetKey(acc.mapping, key, Str(value)), order |-> Append(acc.order, key)]
  ELSE acc

RECURSIVE pairsFrom(_, _, _, _, _)
\* worksheet.eachRow, past the header
pairsFrom(rows, i, shopifyIdx, sourceIdx, acc) ==
  IF i > Len(rows) THEN acc
  ELSE pairsFrom(rows, i + 1, shopifyIdx, sourceIdx,
                 withPair(acc, cellText(getCell(rows[i], shopifyIdx)), cellText(getCell(rows[i], sourceIdx))))

mappingOf(rows, shopifyIdx, sourceIdx) ==
  IF shopifyIdx = -1 \/ sourceIdx = -1 THEN Raised
  ELSE Gave(pairsFrom(rows, 2, shopifyIdx, sourceIdx, [mapping |-> <<>>, order |-> <<>>]))

\* loadMapping that answers a missing file with an empty mapping
loadMappingLenient(env) ==
  IF ~env.exists THEN Gave([mapping |-> <<>>, order |-> <<>>])
  ELSE IF Len(env.sheets) = 0 THEN Raised
  ELSE mappingOf(env.sheets[1].rows, namedCol(headerRow(env.sheets[1].rows), <<"s","h","o","p","i","f","y">>),
                 namedCol(headerRow(env.sheets[1].rows), <<"s","o","u","r","c","e">>))

\* loadMapping(): workbook.worksheets[0] of a workbook without sheets is
\* undefined, and getRow of it raises
loadMapping(env) ==
  IF ~env.exists THEN Raised
  ELSE IF Len(env.sheets) = 0 THEN Raised
  ELSE mappingOf(env.sheets[1].rows, namedCol(headerRow(env.sheets[1].rows), <<"s","h","o","p","i","f","y">>),
                 namedCol(headerRow(env.sheets[1].rows), <<"s","o","u","r","c","e">>))

\* const dests = []; if (dest1) dests.push(dest1); if (dest2) dests.push(dest2)
destsOf(dest1, dest2) == SelectSeqNonEmpty(<<dest1, dest2>>)

\* dest1Col > -1 && row.getCell(dest1Col).value ? String(...).trim() : ''
destText(cells, col) == IF col > -1 THEN cellText(getCell(cells, col)) ELSE <<>>

withMapping(mappings, src, dests) ==
  IF Len(src) > 0 /\ Len(dests) > 0 THEN Append(mappings, Mapping(src, dests)) ELSE mappings

RECURSIVE mappingsFrom(_, _, _, _, _, _)
\* sheet.eachRow, past the header
mappingsFrom(rows, i, sourceCol, dest1Col, dest2Col, mappings) ==
  IF i > Len(rows) THEN mappings
  ELSE mappingsFrom(rows, i + 1, sourceCol, dest1Col, dest2Col,
                    withMapping(mappings, cellText(getCell(rows[i], sourceCol)),
                                destsOf(destText(rows[i], dest1Col), destText(rows[i], dest2Col))))

sheetMappings(rows, sourceCol, dest1Col, dest2Col) ==
  IF sourceCol = -1 THEN Gave(<<>>) ELSE Gave(mappingsFrom(rows, 2, sourceCol, dest1Col, dest2Col, <<>>))

mappingsOfSheet(rows) ==
  sheetMappings(rows, startingCol(headerRow(rows), <<"m","o","l","b","i","l","e">>),
                includingCol(headerRow(rows), <<"s","h","o","p","i","f","y"," ","m","e","t","a","f","i","e","l","d","s"," ","1">>),
                includingCol(headerRow(rows), <<"s","h","o","p","i","f","y"," ","m","e","t","a","f","i","e","l","d","s"," ","2">>))

\* workbook.getWorksheet('Metafields_Mapping')
HasWorksheet(sheets, name) == \E s \in 1..Len(sheets) : sheets[s].name = name
getWorksheet(sheets, name) == sheets[CHOOSE s \in 1..Len(sheets) : sheets[s].name = name]

\* loadMetafieldsMappingFile()
loadMetafieldsMappingFile(env) ==
  IF ~env.exists THEN Gave(<<>>)
  ELSE IF ~HasWorksheet(env.sheets, <<"M","e","t","a","f","i","e","l","d","s","_","M","a","p","p","i","n","g">>) THEN Gave(<<>>)
  ELSE mappingsOfSheet(getWorksheet(env.sheets, <<"M","e","t","a","f","i","e","l","d","s","_","M","a","p","p","i","n","g">>).rows)

\* the cells of header rows
HeaderCells ==
  { Str(<<"S","h","o","p","i","f","y">>), Str(<<" ","S","O","U","R","C","E"," ">>), Str(<<"s","o","u","r","c","e">>), Str(<<"S","h","o","p","i","f","y"," ","c","o","l","u","m","n">>),
    Str(<<"M","o","l","b","i","l","e",".","d","e">>), Str(<<"S","h","o","p","i","f","y"," ","M","e","t","a","f","i","e","l","d","s"," ","1">>), Str(<<"s","h","o","p","i","f","y"," ","m","e","t","a","f","i","e","l","d","s"," ","2"," ","(","x",")">>),
    Null, Num(0), Obj(<< <<<<"r","i","c","h","T","e","x","t">>, Arr(<<>>)>> >>) }

DataRows ==
  << <<Str(<<"T","i","t","l","e">>), Str(<<" ","t","i","t","l","e"," ">>)>>,
     <<Str(<<"a","t","t","r","i","b","u","t","e","s","/","P","o","w","e","r">>), Str(<<"M","e","t","a","f","i","e","l","d",":"," ","c","u","s","t","o","m",".","p","u","t","e","r","e","_","k","w"," ","[","s","i","n","g","l","e","_","l","i","n","e","_","t","e","x","t","_","f","i","e","l","d","]">>)>>,
     <<Null, Str(<<"b","r","a","n","d">>)>>,
     <<Num(7), Num(0)>>,
     <<Str(<<"T","i","t","l","e">>), Str(<<"n","a","m","e">>)>>,
     <<Str(<<"V","e","n","d","o","r">>)>> >>

SheetNames == {<<"S","h","e","e","t","1">>, <<"M","e","t","a","f","i","e","l","d","s","_","M","a","p","p","i","n","g">>, <<"m","e","t","a","f","i","e","l","d","s","_","m","a","p","p","i","n","g">>}

Sheet(name, hdr) == [name |-> name, rows |-> <<hdr>> \o DataRows]

Workbooks ==
  { <<>>, <<[name |-> <<"M","e","t","a","f","i","e","l","d","s","_","M","a","p","p","i","n","g">>, rows |-> <<>>]>> }
  \cup {<<Sheet(n, h)>> : n \in SheetNames, h \in SeqsUpTo(HeaderCells, MaxCols)}
  \cup {<<Sheet(<<"S","h","e","e","t","1">>, <<Str(<<"x">>)>>), Sheet(<<"M","e","t","a","f","i","e","l","d","s","_","M","a","p","p","i","n","g">>, h)>> : h \in SeqsUpTo(HeaderCells, MaxCols)}

Environments ==
  {[exists |-> FALSE, sheets |-> <<>>]} \cup {[exists |-> TRUE, sheets |-> w] : w \in Workbooks}

Loaded(op, r) == [op |-> op, thrown |-> r.thrown, out |-> <<>>, handle |-> <<>>]

LoadInit ==
  /\ given \in Environments
  /\ result = Undef
  /\ pc = "load"
  /\ item = Undef
  /\ mappingList = <<>>
  /\ row = <<>>
  /\ tagsSet = <<>>
  /\ amountStr = <<>>
  /\ numVal = NaN
  /\ attributeColumns = <<>>
  /\ call = NoCall
  /\ exported = <<>>
  /\ WebIdle

\* await loadMapping()
LoadMapping ==
  /\ pc = "load"
  /\ call' = Loaded("loadMapping", loadMapping(given))
  /\ result' = loadMapping(given).value
  /\ pc' = "loaded"
  /\ UNCHANGED <<item, mappingList, row, tagsSet, amountStr, numVal, attributeColumns, exported, given, webVars>>

\* await loadMetafieldsMappingFile(): the list it returns is the mapping
\* list of the calls that follow
LoadMetafieldsMappingFile ==
  /\ pc = "load"
  /\ call' = Loaded("loadMetafieldsMappingFile", loadMetafieldsMappingFile(given))
  /\ result' = loadMetafieldsMappingFile(given).value
  /\ mappingList' = loadMetafieldsMappingFile(given).value
  /\ pc' = "loaded"
  /\ UNCHANGED <<item, row, tagsSet, amountStr, numVal, attributeColumns, exported, given, webVars>>

LoadNext ==
  \/ LoadMapping
  \/ LoadMetafieldsMappingFile

LoadSpec == LoadInit /\ [][LoadNext]_vars

(***************************************************************************)
(* toCsv(rows)                                                             *)
(***************************************************************************)
MaxCellLen == 2

\* headerSet.add(key) for the keys of one row, in the order of Object.keys
RECURSIVE addKeys(_, _, _)
addKeys(headers, keys, i) ==
  IF i > Len(keys) THEN headers
  ELSE addKeys(IF \E h \in 1..Len(headers) : headers[h] = keys[i] THEN headers ELSE Append(headers, keys[i]),
               keys, i + 1)

RECURSIVE headersFrom(_, _, _)
headersFrom(rows, r, headers) ==
  IF r > Len(rows) THEN headers ELSE headersFrom(rows, r + 1, addKeys(headers, Keys(rows[r].o), 1))

\* the keys of the first row only
headersOfFirstRow(rows) == Keys(rows[1].o)

\* rows.forEach((row) => Object.keys(row).forEach((key) => headerSet.add(key)))
headersOf(rows) == headersFrom(rows, 1, <<>>)

\* a text left as it is
keepQuotes(s) == s

\* str.replace(/"/g, '""')
doubleQuotes(s) == Concat([i \in 1..Len(s) |-> IF s[i] = Quote THEN <<Quote, Quote>> ELSE <<s[i]>>])

\* /[",\n]/.test(escaped) ? `"${escaped}"` : escaped
quoteIfNeeded(escaped) ==
  IF \E i \in 1..Len(escaped) : escaped[i] \in {Quote, ",", "\n"} THEN <<Quote>> \o escaped \o <<Quote>>
  ELSE escaped

escapeCell(val) == quoteIfNeeded(doubleQuotes(IF IsNullish(val) THEN <<>> ELSE ToStr(val)))

\* headers.map((h) => escapeCell(row[h])).join(',')
lineOf(r, headers) == Join([h \in 1..Len(headers) |-> escapeCell(GetKey(r.o, headers[h]))], <<",">>)

linesOf(rows, headers) == <<Join(headers, <<",">>)>> \o [r \in 1..Len(rows) |-> lineOf(rows[r], headers)]

\* toCsv(rows): '' for a value that is not truthy and for the empty array
toCsv(rows) ==
  IF ~Truthy(rows) \/ Len(rows.a) = 0 THEN <<>> ELSE Join(linesOf(rows.a, headersOf(rows.a)), <<"\n">>)

\* the texts of cells: every text of up to MaxCellLen of these characters
CsvChars == {"a", ",", Quote, "\n", " "}

CsvCells ==
  {Str(s) : s \in SeqsUpTo(CsvChars, MaxCellLen)}
  \cup { Str(<<"s","a","y"," ","\"","h","i","\"",","," ","t","h","e","n","\n","l","e","a","v","e">>), Str(<<"B","l","a","c","k",","," ","m","e","t","a","l","l","i","c">>), Str(<<"l","i","n","e","1">> \o <<"\r", "\n">> \o <<"l","i","n","e","2">>), Str(<<"\"">> \o <<"\"">>),
         Null, Undef, Num(7), Bool(FALSE) }

\* rows with the keys of the rows the program writes
CsvRows ==
  {Obj(<< <<kHandle, Str(<<"c","a","r","-","7">>)>>, <<kTitle, c>>, <<kImageSrc, Str(<<"h","t","t","p","s",":","/","/","i","/","1",".","j","p","g">>)>> >>) : c \in CsvCells}
  \cup {Obj(<< <<kTitle, c>>, <<kTags, c>> >>) : c \in CsvCells}
  \cup {Obj(<< <<kVendor, Str(<<"A","u","t","o"," ","S","R","L">>)>>, <<kTitle, c>> >>) : c \in CsvCells}

SparseRows ==
  { Obj(<< <<kTitle, Str(<<"V","W"," ","G","o","l","f">>)>>, <<kImageAltText, Str(<<"a"," ","\"","b","\"",","," ","c">>)>> >>),
    Obj(<< <<kImageSrc, Null>>, <<kHandle, Str(<<"c","a","r","-","8">>)>> >>),
    Obj(<< <<kTags, Str(<<>>)>>, <<kVendor, Str(<<"x",",","\n","y">>)>> >>) }

CsvInputs ==
  {Null, Undef, Arr(<<>>)}
  \cup {Arr(<<r>>) : r \in CsvRows \cup SparseRows}
  \cup {Arr(<<r, s>>) : r \in CsvRows, s \in SparseRows}
  \cup {Arr(<<s, r>>) : r \in CsvRows, s \in SparseRows}
  \cup {Arr(<<s, r, t>>) : r \in {Obj(<< <<kTitle, c>>, <<kTags, c>> >>) : c \in CsvCells}, s \in SparseRows, t \in SparseRows}

CsvInit ==
  /\ given \in CsvInputs
  /\ result = Undef
  /\ pc = "rows"
  /\ item = Undef
  /\ mappingList = <<>>
  /\ row = <<>>
  /\ tagsSet = <<>>
  /\ amountStr = <<>>
  /\ numVal = NaN
  /\ attributeColumns = <<>>
  /\ call = NoCall
  /\ exported = <<>>
  /\ WebIdle

\* const csv = toCsv(rows)
ToCsv ==
  /\ pc = "rows"
  /\ result' = Str(toCsv(given))
  /\ pc' = "csv"
  /\ UNCHANGED <<item, mappingList, row, tagsSet, amountStr, numVal, attributeColumns, call, exported, given, webVars>>

CsvNext == ToCsv

CsvSpec == CsvInit /\ [][CsvNext]_vars

(***************************************************************************)
(* safeParseMaybeList applied to a value of its own                        *)
(***************************************************************************)
MaxListLen == 4

ListChars == {"a", "b", ";", ",", " "}

ListInputs ==
  {Str(s) : s \in SeqsUpTo(ListChars, MaxListLen)}
  \cup { Null, Undef, Num(5), Bool(TRUE), Obj(<< <<fName, Str(<<"A","B","S">>)>> >>),
         Arr(<<>>), Arr(<<Str(<<"a",";"," ","b">>), Null, Num(1)>>),
         Str(<<"a",";"," ","b",";"," ","c">>), Str(<<"a"," ",";"," ","b"," ",","," ","c">>), Str(<<" ","A","B","S"," ",";","E","S","P",","," "," ","F","r","o","n","t"," ","w","h","e","e","l"," ","d","r","i","v","e"," ">>),
         Str(<<"[","\"","a","\"",",","\"","b","\"","]">>), Str(<<" ","[","1",","," ","{","\"","x","\"",":","2","}","]"," ">>), Str(<<"[","]">>), Str(<<"[","\"","a","\"",","," ","b","]">>),
         Str(<<"{","\"","n","a","m","e","\"",":","\"","A","B","S","\"","}">>), Str(<<"5">>), Str(<<"t","r","u","e">>), Str(<<"\"","a",";","b","\"">>), Str(<<"n","u","l","l">>),
         Str(<<"A","B","S">>), Str(<<" "," ","F","r","o","n","t"," ","w","h","e","e","l"," ","d","r","i","v","e"," "," ">>), Str(<<"{","b","a","d"," ","j","s","o","n">>) }

ListInit ==
  /\ given \in ListInputs
  /\ result = Undef
  /\ pc = "value"
  /\ item = Undef
  /\ mappingList = <<>>
  /\ row = <<>>
  /\ tagsSet = <<>>
  /\ amountStr = <<>>
  /\ numVal = NaN
  /\ attributeColumns = <<>>
  /\ call = NoCall
  /\ exported = <<>>
  /\ WebIdle

\* safeParseMaybeList(value)
SafeParseMaybeList ==
  /\ pc = "value"
  /\ result' = Arr(safeParseMaybeList(given))
  /\ pc' = "list"
  /\ UNCHANGED <<item, mappingList, row, tagsSet, amountStr, numVal, attributeColumns, call, exported, given, webVars>>

ListNext == SafeParseMaybeList

ListSpec == ListInit /\ [][ListNext]_vars

(***************************************************************************)
(* extractKwHp applied to a value and a mode of its own                    *)
(***************************************************************************)
MaxPowerDigits == 5

\* the numbers 1, 12, 123, ... of up to MaxPowerDigits digits
PowerNumbers == {SubSeq(<<"1","2","3","4","5","6","7","8","9">>, 1, n) : n \in 1..MaxPowerDigits}

PowerUnits == {<<"k","W">>, <<"K","W">>, <<"k","w">>, <<"h","p">>, <<"H","P">>, <<"P","S">>}

PowerTexts ==
  {n \o sp \o u : n \in PowerNumbers, sp \in {<<>>, <<" ">>, <<" "," ">>}, u \in PowerUnits}
  \cup {<<"(">> \o n \o sp \o u \o <<")">> : n \in PowerNumbers, sp \in {<<>>, <<" ">>}, u \in PowerUnits}
  \cup {<<"1","9","5"," ","k","W"," ","(">> \o n \o <<" ","h","p",")">> : n \in PowerNumbers}
  \cup {n \o <<" ","k","W"," ","(","2","6","5"," ","h","p",")">> : n \in PowerNumbers}
  \cup { <<"1","9","5"," ","k","W"," ","(","2","6","5"," ","h","p",")">>, <<"1","1","0",".","5","5"," ","k","W"," ","(","1","5","0",",","5"," ","h","p",")">>, <<"(","1","5","0"," ","k","W",")">>, <<"2","6","5"," ","h","p">>, <<"k","W">>, <<>>, <<"D","i","e","s","e","l">> }

PowerValues == {Str(t) : t \in PowerTexts} \cup {Null, Undef, Num(110)}

UnitInit ==
  /\ given \in {[value |-> v, mode |-> m] : v \in PowerValues, m \in {"kw", "cp"}}
  /\ result = Undef
  /\ pc = "power"
  /\ item = Undef
  /\ mappingList = <<>>
  /\ row = <<>>
  /\ tagsSet = <<>>
  /\ amountStr = <<>>
  /\ numVal = NaN
  /\ attributeColumns = <<>>
  /\ call = NoCall
  /\ exported = <<>>
  /\ WebIdle

\* extractKwHp(value, mode)
ExtractKwHp ==
  /\ pc = "power"
  /\ result' = Str(extractKwHp(given.value, given.mode))
  /\ pc' = "extracted"
  /\ UNCHANGED <<item, mappingList, row, tagsSet, amountStr, numVal, attributeColumns, call, exported, given, webVars>>

UnitNext == ExtractKwHp

UnitSpec == UnitInit /\ [][UnitNext]_vars

(***************************************************************************)
(* GET /api/run-results                                                    *)
(***************************************************************************)
MaxItems == 2

Response(status, type, body) == [status |-> status, type |-> type, body |-> body]

\* res.status(n).json({ error: message })
ErrorResponse(status, message) == Response(status, "error", Str(message))

\* const { runId, format = 'json', normalized } = req.query
formatOf(query) == IF query.format.t = "undef" THEN Str(<<"j","s","o","n">>) ELSE query.format

\* String(normalized || 'false').toLowerCase() === 'true'
doNormalize(query) ==
  ToLowerCase(ToStr(IF Truthy(query.normalized) THEN query.normalized ELSE Str(<<"f","a","l","s","e">>))) = <<"t","r","u","e">>

\* doNormalize || format === 'xlsx'
fetchesItems(query) == doNormalize(query) \/ formatOf(query) = Str(<<"x","l","s","x">>)

\* Array.isArray(jsonItems) ? jsonItems : []
arrayOrEmpty(jsonItems) == IF jsonItems.t = "arr" THEN jsonItems.a ELSE <<>>

\* items.map(normalizeItem): thrown where one of the calls raises
normalizedItems(its) ==
  [thrown |-> \E i \in 1..Len(its) : normalizeItem(its[i]).thrown,
   items |-> [i \in 1..Len(its) |-> Obj(normalizeItem(its[i]).out)]]

\* the items after the fetch of the dataset
loadedItems(query, its) ==
  IF doNormalize(query) THEN normalizedItems(its) ELSE [thrown |-> FALSE, items |-> its]

\* headers.map((h) => row[h] ?? '')
worksheetLine(r, headers) == [h \in 1..Len(headers) |-> Coalesce(GetKey(r.o, headers[h]), EmptyStr)]

\* worksheet.addRow(headers), then one row for each of the items
worksheetRows(its, headers) == <<headers>> \o [r \in 1..Len(its) |-> worksheetLine(its[r], headers)]

\* the workbook of the items; Object.keys(row) raises for a row that is null
workbookOf(its) ==
  IF \E r \in 1..Len(its) : its[r].t # "obj" THEN ErrorResponse(500, <<"T","y","p","e","E","r","r","o","r">>)
  ELSE Response(200, "xlsx", worksheetRows(its, headersOf(its)))

\* the response the handler sends for the format
resultsFor(fmt, normalize, its, dataset) ==
  IF fmt = <<"j","s","o","n">> THEN Response(200, "json", IF normalize THEN Arr(its) ELSE dataset)
  ELSE IF fmt = <<"c","s","v">>
    THEN Response(200, "csv", IF normalize THEN Str(toCsv(Arr(its))) ELSE [upstream |-> "csv", of |-> dataset])
  ELSE IF fmt = <<"x","l","s","x">> THEN workbookOf(its)
  ELSE ErrorResponse(400, <<"U","n","s","u","p","p","o","r","t","e","d"," ","f","o","r","m","a","t","."," ","U","s","e"," ","j","s","o","n",","," ","c","s","v"," ","o","r"," ","x","l","s","x",".">>)

\* the items of a dataset
RunItems ==
  { Obj(<< <<fTitle, Str(<<"V","W"," ","G","o","l","f">>)>>, <<fId, Num(7)>> >>),
    Obj(<< <<fId, Num(8)>>, <<fUrl, Null>> >>),
    Null }

\* what the platform answers for the items of the dataset
Datasets ==
  {Arr(s) : s \in SeqsUpTo(RunItems, MaxItems)} \cup {Obj(<< <<<<"e","r","r","o","r">>, Str(<<"n","o","t"," ","f","o","u","n","d">>)>> >>)}

Queries ==
  {[runId |-> r, format |-> f, normalized |-> n] :
     r \in {Undef, Str(<<"r","1">>)},
     f \in {Undef, Str(<<"j","s","o","n">>), Str(<<"c","s","v">>), Str(<<"C","S","V">>), Str(<<"x","l","s","x">>), Str(<<"X","L","S","X">>), Str(<<"X","l","s","x">>), Str(<<"p","d","f">>)},
     n \in {Undef, Str(<<"t","r","u","e">>), Str(<<"T","R","U","E">>), Str(<<"f","a","l","s","e">>), Str(<<"1">>)}}

\* whether a token is set, what the platform answers for the run and for
\* the items of its dataset
Platforms ==
  {[token |-> TRUE, run |-> "ok", dataset |-> d] : d \in Datasets}
  \cup {[token |-> FALSE, run |-> "ok", dataset |-> Arr(<<>>)]}
  \cup {[token |-> TRUE, run |-> r, dataset |-> Arr(<<>>)] : r \in {"notOk", "noDataset", "unreachable"}}

RunInit ==
  /\ given \in {[query |-> q, env |-> e] : q \in Queries, e \in Platforms}
  /\ result = Undef
  /\ pc = "request"
  /\ item = Undef
  /\ mappingList = <<>>
  /\ row = <<>>
  /\ tagsSet = <<>>
  /\ amountStr = <<>>
  /\ numVal = NaN
  /\ attributeColumns = <<>>
  /\ call = NoCall
  /\ exported = <<>>
  /\ WebIdle

\* the handler up to its request for the run
ReceiveRequest ==
  /\ pc = "request"
  /\ IF ~Truthy(given.query.runId)
     THEN result' = ErrorResponse(400, <<"r","u","n","I","d"," ","q","u","e","r","y"," ","p","a","r","a","m","e","t","e","r"," ","i","s"," ","r","e","q","u","i","r","e","d">>) /\ pc' = "responded"
     ELSE IF ~given.env.token
     THEN result' = ErrorResponse(500, <<"A","P","I","F","Y","_","T","O","K","E","N"," ","o","r"," ","A","P","I","F","Y","_","A","P","I","_","T","O","K","E","N"," ","m","u","s","t"," ","b","e"," ","s","e","t">>) /\ pc' = "responded"
     ELSE result' = result /\ pc' = "run"
  /\ UNCHANGED <<rowVars, given, items, pageVars>>

\* the answer for the run arrives
FetchRun ==
  /\ pc = "run"
  /\ IF given.env.run = "unreachable"
     THEN result' = ErrorResponse(500, <<"f","e","t","c","h"," ","f","a","i","l","e","d">>) /\ pc' = "responded"
     ELSE IF given.env.run = "notOk"
     THEN result' = ErrorResponse(404, <<"F","a","i","l","e","d"," ","t","o"," ","f","e","t","c","h"," ","r","u","n"," ","d","e","t","a","i","l","s">>) /\ pc' = "responded"
     ELSE IF given.env.run = "noDataset"
     THEN result' = ErrorResponse(404, <<"D","a","t","a","s","e","t"," ","I","D"," ","n","o","t"," ","f","o","u","n","d"," ","f","o","r"," ","t","h","i","s"," ","r","u","n","."," ","M","a","k","e"," ","s","u","r","e"," ","t","h","e"," ","r","u","n"," ","h","a","s"," ","f","i","n","i","s","h","e","d"," ","s","u","c","c","e","s","s","f","u","l","l","y",".">>)
          /\ pc' = "responded"
     ELSE result' = result /\ pc' = (IF fetchesItems(given.query) THEN "items" ELSE "format")
  /\ UNCHANGED <<rowVars, given, items, pageVars>>

\* the answer for the items of the dataset arrives
FetchItems ==
  /\ pc = "items"
  /\ IF loadedItems(given.query, arrayOrEmpty(given.env.dataset)).thrown
     THEN result' = ErrorResponse(500, <<"T","y","p","e","E","r","r","o","r">>) /\ pc' = "responded" /\ items' = items
     ELSE items' = loadedItems(given.query, arrayOrEmpty(given.env.dataset)).items
          /\ pc' = "format" /\ result' = result
  /\ UNCHANGED <<rowVars, given, pageVars>>

\* the handler from const fmt = format.toLowerCase() to its response
SendResults ==
  /\ pc = "format"
  /\ result' = resultsFor(ToLowerCase(formatOf(given.query).s), doNormalize(given.query), items, given.env.dataset)
  /\ pc' = "responded"
  /\ UNCHANGED <<rowVars, given, items, pageVars>>

RunNext == ReceiveRequest \/ FetchRun \/ FetchItems \/ SendResults

RunSpec == RunInit /\ [][RunNext]_vars

(***************************************************************************)
(* The page: the submit handler of crawlForm and its poll loop             *)
(***************************************************************************)
MaxPolls == 3

\* setInterval(..., 3000), in seconds
PollInterval == 3

sSucceeded == <<"S","U","C","C","E","E","D","E","D">>
sFailed == <<"F","A","I","L","E","D">>
sAborted == <<"A","B","O","R","T","E","D">>

\* the statuses of a run on the platform and the statuses that follow them
RunStatuses == {<<"R","E","A","D","Y">>, <<"R","U","N","N","I","N","G">>, sSucceeded, sFailed, sAborted, <<"T","I","M","E","D","-","O","U","T">>}

NextStatuses(s) ==
  IF s = <<"R","E","A","D","Y">> THEN {<<"R","U","N","N","I","N","G">>}
  ELSE IF s = <<"R","U","N","N","I","N","G">> THEN {sSucceeded, sFailed, sAborted, <<"T","I","M","E","D","-","O","U","T">>}
  ELSE {}

\* the stats of the run JSON
statsAt(s) ==
  IF s = <<"R","E","A","D","Y">> THEN <<>>
  ELSE IF s = <<"R","U","N","N","I","N","G">> THEN << <<<<"s","t","a","t","s">>, Obj(<< <<<<"s","u","c","c","e","e","d","e","d">>, Num(3)>> >>)>> >>
  ELSE << <<<<"s","t","a","t","s">>, Obj(<< <<<<"s","u","c","c","e","e","d","e","d">>, Num(0)>>, <<<<"i","t","e","m","s","O","u","t","p","u","t">>, Num(5)>> >>)>> >>

\* what /api/run-status answers: the run JSON as it is, or an error
runJson(s) == Obj(<< <<<<"s","t","a","t","u","s">>, Str(s)>> >> \o statsAt(s))

errorJson == Obj(<< <<<<"e","r","r","o","r">>, Str(<<"F","a","i","l","e","d"," ","t","o"," ","f","e","t","c","h"," ","r","u","n"," ","s","t","a","t","u","s">>)>> >>)

\* status.stats && (status.stats.succeeded || status.stats.itemsOutput) || 0
succeededCount(status) ==
  OrElse(IF Truthy(Prop(status, <<"s","t","a","t","s">>))
           THEN OrElse(Prop(Prop(status, <<"s","t","a","t","s">>), <<"s","u","c","c","e","e","d","e","d">>), Prop(Prop(status, <<"s","t","a","t","s">>), <<"i","t","e","m","s","O","u","t","p","u","t">>))
           ELSE Prop(status, <<"s","t","a","t","s">>),
         Num(0))

\* status.status === 'SUCCEEDED'
isSucceeded(status) == Prop(status, <<"s","t","a","t","u","s">>) = Str(sSucceeded)

\* no status but SUCCEEDED ends the polling
isEndedNever(status) == FALSE

\* status.status === 'FAILED' || status.status === 'ABORTED'
isEnded(status) == Prop(status, <<"s","t","a","t","u","s">>) \in {Str(sFailed), Str(sAborted)}

\* the progress text the callback leaves
progressFor(status) ==
  IF isSucceeded(status) THEN <<"R","u","n"," ","s","u","c","c","e","e","d","e","d","."," ">> \o ToStr(succeededCount(status)) \o <<" ","i","t","e","m","s",".">>
  ELSE IF isEnded(status) THEN <<"R","u","n"," ","e","n","d","e","d"," ","w","i","t","h"," ","s","t","a","t","u","s",":"," ">> \o ToStr(Prop(status, <<"s","t","a","t","u","s">>))
  ELSE <<"S","t","a","t","u","s",":"," ">> \o ToStr(Prop(status, <<"s","t","a","t","u","s">>)) \o <<" ","|"," ","S","u","c","c","e","e","d","e","d",":"," ">> \o ToStr(succeededCount(status))

\* the hrefs of the download links
downloads(runId) ==
  [i \in 1..6 |->
     <<"/","a","p","i","/","r","u","n","-","r","e","s","u","l","t","s","?","r","u","n","I","d","=">> \o runId
       \o << <<"&","f","o","r","m","a","t","=","j","s","o","n">>, <<"&","f","o","r","m","a","t","=","c","s","v">>, <<"&","f","o","r","m","a","t","=","x","l","s","x">>,
             <<"&","f","o","r","m","a","t","=","j","s","o","n","&","n","o","r","m","a","l","i","z","e","d","=","t","r","u","e">>, <<"&","f","o","r","m","a","t","=","c","s","v","&","n","o","r","m","a","l","i","z","e","d","=","t","r","u","e">>,
             <<"&","f","o","r","m","a","t","=","x","l","s","x","&","n","o","r","m","a","l","i","z","e","d","=","t","r","u","e">> >>[i]]

linksFor(status, runId, shown) == IF isSucceeded(status) THEN downloads(runId) ELSE shown

\* clearInterval(poll) in the two branches of the callback
timerFor(status, t) == IF isSucceeded(status) \/ isEnded(status) THEN "cleared" ELSE t

\* what the callback has last seen
Seen(id, failed, status) == [id |-> id, failed |-> failed, status |-> status]

PollInit ==
  /\ given \in {[searchUrl |-> u, runId |-> <<"r","1">>] : u \in {Str(<<>>), Str(<<" "," ">>), Str(<<"h","t","t","p","s",":","/","/","s","u","c","h","e","n",".","m","o","b","i","l","e",".","d","e","/","x">>)}}
  /\ result = Undef
  /\ pc = "page"
  /\ item = Undef
  /\ mappingList = <<>>
  /\ row = <<>>
  /\ tagsSet = <<>>
  /\ amountStr = <<>>
  /\ numVal = NaN
  /\ attributeColumns = <<>>
  /\ call = NoCall
  /\ exported = <<>>
  /\ WebIdle

\* the form is submitted: the handler up to its request to /api/start-run
SubmitForm ==
  /\ pc = "page"
  /\ progress' = <<>>
  /\ links' = <<>>
  /\ pc' = (IF ~Truthy(Str(Trim(given.searchUrl.s))) THEN "alerted" ELSE "starting")
  /\ UNCHANGED <<rowVars, given, result, items, timer, clock, sent, inFlight, runStatus>>

\* the answer of /api/start-run arrives with the id of the run
RunStarted ==
  /\ pc = "starting"
  /\ runStatus' = <<"R","E","A","D","Y">>
  /\ progress' = <<"R","u","n"," ","s","t","a","r","t","e","d","."," ","I","D",":"," ">> \o given.runId
  /\ timer' = "set"
  /\ clock' = 0
  /\ pc' = "polling"
  /\ UNCHANGED <<rowVars, given, result, items, sent, inFlight, links>>

\* the answer of /api/start-run holds an error, or the request fails
StartFailed ==
  /\ pc = "starting"
  /\ pc' = "alerted"
  /\ UNCHANGED <<rowVars, given, result, webVars>>

\* a second passes while the timer is set
Second ==
  /\ timer = "set"
  /\ clock < PollInterval
  /\ clock' = clock + 1
  /\ UNCHANGED <<rowVars, given, result, pc, items, timer, sent, inFlight, progress, links, runStatus>>

\* the timer fires: the callback up to its request to /api/run-status
Tick ==
  /\ timer = "set"
  /\ clock = PollInterval
  /\ sent < MaxPolls
  /\ sent' = sent + 1
  /\ inFlight' = inFlight \cup {[id |-> sent + 1, answer |-> Undef]}
  /\ clock' = 0
  /\ UNCHANGED <<rowVars, given, result, pc, items, timer, progress, links, runStatus>>

\* the run goes on
RunAdvance ==
  /\ pc = "polling"
  /\ \E s \in NextStatuses(runStatus) : runStatus' = s
  /\ UNCHANGED <<rowVars, given, result, pc, items, timer, clock, sent, inFlight, progress, links>>

\* /api/run-status answers a poll
ServeStatus ==
  /\ \E r \in inFlight : \E a \in {runJson(runStatus), errorJson} :
       /\ r.answer = Undef
       /\ inFlight' = (inFlight \ {r}) \cup {[id |-> r.id, answer |-> a]}
  /\ UNCHANGED <<rowVars, given, result, pc, items, timer, clock, sent, progress, links, runStatus>>

\* the answer of a poll arrives: the rest of the callback
ReceiveStatus ==
  /\ \E r \in inFlight :
       /\ r.answer # Undef
       /\ inFlight' = inFlight \ {r}
       /\ progress' = progressFor(r.answer)
       /\ links' = linksFor(r.answer, given.runId, links)
       /\ timer' = timerFor(r.answer, timer)
       /\ result' = Seen(r.id, FALSE, r.answer)
  /\ UNCHANGED <<rowVars, given, pc, items, clock, sent, runStatus>>

\* the request of a poll fails or its answer is not JSON: the catch
PollFailed ==
  /\ \E r \in inFlight :
       /\ inFlight' = inFlight \ {r}
       /\ result' = Seen(r.id, TRUE, Undef)
  /\ timer' = "cleared"
  /\ progress' = <<"E","r","r","o","r"," ","w","h","i","l","e"," ","p","o","l","l","i","n","g"," ","r","u","n"," ","s","t","a","t","u","s">>
  /\ UNCHANGED <<rowVars, given, pc, items, clock, sent, links, runStatus>>

PollNext ==
  \/ SubmitForm \/ RunStarted \/ StartFailed
  \/ Second \/ Tick \/ RunAdvance
  \/ ServeStatus \/ ReceiveStatus \/ PollFailed

PollSpec == PollInit /\ [][PollNext]_vars

(***************************************************************************)
(* The Variant Price of two amounts                                        *)
(***************************************************************************)
MaxStep == 2

\* the commission breakpoints of the price rule
Breakpoints == {25000, 40000, 60000, 90000, 250000}

\* amounts in hundredths: up to MaxStep hundredths on both sides of every
\* breakpoint, one unit below it, and amounts far from all of them
PriceAmounts ==
  {100 * b + d : b \in Breakpoints, d \in (0 - MaxStep)..MaxStep}
  \cup {100 * (b - 1) : b \in Breakpoints}
  \cup {1, 100, 1587311, 2000000, 5000000, 30000000}

\* the amount text of the record: the amount with two decimals
AmountText(c) == NatToStr(c \div 100) \o <<".", Digits[((c \div 10) % 10) + 1], Digits[(c % 10) + 1]>>

\* the Variant Price buildMetafieldsRow computes for an amount text
priceOfText(text) == GetKey(variantPrice(<<>>, numValOf(text)), kVariantPrice).s

PriceInit ==
  /\ given \in {[a |-> x, b |-> y] : x \in PriceAmounts, y \in PriceAmounts}
  /\ given.a <= given.b
  /\ result = Undef
  /\ pc = "amounts"
  /\ item = Undef
  /\ mappingList = <<>>
  /\ row = <<>>
  /\ tagsSet = <<>>
  /\ amountStr = <<>>
  /\ numVal = NaN
  /\ attributeColumns = <<>>
  /\ call = NoCall
  /\ exported = <<>>
  /\ WebIdle

\* the Variant Price block for each of the two amounts
ComputePrices ==
  /\ pc = "amounts"
  /\ result' = [a |-> priceOfText(AmountText(given.a)), b |-> priceOfText(AmountText(given.b))]
  /\ pc' = "priced"
  /\ UNCHANGED <<rowVars, given, webVars>>

PriceNext == ComputePrices

PriceSpec == PriceInit /\ [][PriceNext]_vars

(***************************************************************************)
(* Properties                                                              *)
(***************************************************************************)
\* buildMetafieldsRow has returned: row is the returned row, amountStr and
\* numVal are the values its price block worked with
Returned == pc = "done"

\* C1: buildMetafieldsRow never throws, whatever the record and the
\* mapping list.
C1_NeverThrows == pc # "thrown"

\* C2: the row buildMetafieldsRow returns has the keys Title, Handle,
\* Variant SKU, Tags and Body HTML, also for a null or an empty record.
C2_CoreKeys == Returned => {kTitle, kHandle, kVariantSKU, kTags, kBodyHTML} \subseteq KeySet(row)

\* a row returned for the null record, with the five keys
C2_Witness ==
  /\ Returned
  /\ item = Null
  /\ {kTitle, kHandle, kVariantSKU, kTags, kBodyHTML} \subseteq KeySet(row)

\* C3: normalizeItem never fails, whatever the record.
C3_NormalizeNeverFails == ~(call.op = "normalizeItem" /\ call.thrown)

\* C4: no value of the object normalizeItem returns is an object or an
\* array: every value is a scalar.
C4_FlatValues ==
  (call.op = "normalizeItem" /\ ~call.thrown)
    => \A i \in 1..Len(call.out) : call.out[i][2].t \in {"str", "num", "bool"}

\* the commission in thousandths for the amount nv
C5_Rate(nv) ==
  IF DblLessNat(nv, 25000) THEN 95
  ELSE IF DblLessNat(nv, 40000) THEN 75
  ELSE IF DblLessNat(nv, 60000) THEN 65
  ELSE IF DblLessNat(nv, 90000) THEN 55
  ELSE IF DblLessNat(nv, 250000) THEN 45
  ELSE 35

\* a * 1.21 / 1.19 * (1 + r) in cents, rounded half-up, in exact arithmetic
C5_ExactCents(nv) ==
  LET num == BShl(BMulSmall(BMulSmall(BMulSmall(nv.m, 121), 1000 + C5_Rate(nv)), 100), IF nv.e > 0 THEN nv.e ELSE 0)
      den == BShl(BMulSmall(BFromNat(119), 1000), IF nv.e < 0 THEN -nv.e ELSE 0)
  IN BDivMod(BAdd(BMulSmall(num, 2), den), BMulSmall(den, 2)).q

\* C5: for a positive amount a the Variant Price is a * 1.21 / 1.19 *
\* (1 + r) rounded half-up to two decimals and written as a string, r the
\* commission of the tier of a.
C5_PriceRule ==
  (Returned /\ DblPositive(numVal))
    => GetKey(row, kVariantPrice) = Str(FormatCents(C5_ExactCents(numVal)))

\* price.amount, price.total.amount and price.value of a price object, then
\* the flat field
C6_Candidates(it) ==
  LET p == Field(it, fPrice)
  IN (IF Truthy(p) /\ TypeofObject(p)
      THEN <<Prop(p, fAmount), Prop(Prop(p, fTotal), fAmount), Prop(p, fValue)>> ELSE <<>>)
     \o <<Field(it, kPriceTotalAmount)>>

C6_FirstNonEmpty(it) ==
  LET nonEmpty == SelectSeq(C6_Candidates(it), Truthy)
  IN IF Len(nonEmpty) > 0 THEN ToStr(nonEmpty[1]) ELSE <<>>

C6_IsNumeric(c) == IsDigit(c) \/ c \in {".", ","}
\* the number of numeric characters the text starts with
C6_PrefixLen(s) == Cardinality({i \in 1..Len(s) : \A j \in 1..i : C6_IsNumeric(s[j])})
\* a numeric text followed by a suffix without digits, dots and commas
C6_HasSuffixOnly(s) ==
  /\ C6_PrefixLen(s) > 0
  /\ \A i \in (C6_PrefixLen(s) + 1)..Len(s) : ~C6_IsNumeric(s[i])

C6_Separated(s) ==
  IF HasChar(s, ",") /\ HasChar(s, ".") THEN SelectSeq(s, LAMBDA c : c # ",")
  ELSE [i \in 1..Len(s) |-> IF s[i] = "," THEN "." ELSE s[i]]

\* C6: the amount text is the first non-empty of price.amount,
\* price.total.amount, price.value and price/total/amount; with a comma and
\* a dot the commas are dropped, with commas only the comma is the decimal
\* point, a suffix that is not numeric is dropped; '15,873.11' and
\* '15873,11' both give 15873.11.
C6_AmountParsing ==
  Returned =>
    /\ amountStr = C6_FirstNonEmpty(item)
    /\ C6_HasSuffixOnly(amountStr)
         => numVal = ParseFloat(C6_Separated(SubSeq(amountStr, 1, C6_PrefixLen(amountStr))))
    /\ amountStr \in {<<"1","5",",","8","7","3",".","1","1">>, <<"1","5","8","7","3",",","1","1">>} => numVal = DblLit(1587311, 100)

\* '15873,11' read from the flat field, the price object having no amount
C6_Witness ==
  /\ Returned
  /\ Field(item, fPrice) = Obj(<<>>)
  /\ amountStr = <<"1","5","8","7","3",",","1","1">>
  /\ numVal = DblLit(1587311, 100)

\* the row after the mapping step
C7_MappedRow == applyMappings([row |-> <<>>, tags |-> <<>>], item, mappingList, 1).row

\* C7: in the returned row a Variant Price set by the mapping step is kept
\* exactly when no positive amount is parsed; with a positive amount the
\* computed price takes its place; with neither the value is ''.
C7_MappedPriceSurvives ==
  Returned =>
    IF DblPositive(numVal) THEN GetKey(row, kVariantPrice) = Str(computedPrice(numVal))
    ELSE IF HasKey(C7_MappedRow, kVariantPrice)
      THEN GetKey(row, kVariantPrice) = GetKey(C7_MappedRow, kVariantPrice)
    ELSE GetKey(row, kVariantPrice) = EmptyStr

\* C8: the Handle is made of a-z, 0-9 and hyphens only, for every title
\* and id.
C8_HandleCharset ==
  Returned => \A i \in 1..Len(GetKey(row, kHandle).s) :
                 IsSlugChar(GetKey(row, kHandle).s[i]) \/ GetKey(row, kHandle).s[i] = "-"

\* the Handle from the slug and the text of the id
C9_Joined(slug, idText) ==
  IF Len(slug) > 0 /\ Len(idText) > 0 THEN slug \o <<"-">> \o idText
  ELSE IF Len(idText) > 0 THEN idText
  ELSE slug

\* the id trimmed, empty for an id that is undefined or null
C9_TrimmedId(it) == IF IsNullish(Field(it, fId)) THEN <<>> ELSE Trim(ToStr(Field(it, fId)))

C9_CallsWithHandle == {"mapItemToShopifyTemplate", "mapToShopify", "imagesExploded"}

\* C9, amended: the Handle is slug(title) + '-' + the trimmed String(id)
\* when both are not empty, the trimmed id alone when the slug is empty, the
\* slug alone when the id is undefined, null or blank; buildMetafieldsRow,
\* mapItemToShopifyTemplate, mapToShopify and /api/images-exploded all
\* build it so.
C9_HandleConstruction ==
  /\ Returned => GetKey(row, kHandle) = Str(C9_Joined(slugOf(titleOf(item)), C9_TrimmedId(item)))
  /\ (call.op \in C9_CallsWithHandle /\ ~call.thrown)
       => call.handle = C9_Joined(slugOf(titleOf(item)), C9_TrimmedId(item))

\* an id with blanks around it, joined trimmed to the slug of the title
C9_Witness ==
  /\ Returned
  /\ Field(item, fTitle) = Str(<<"V","W"," ","G","o","l","f"," ","2",".","0"," ","T","D","I">>)
  /\ Field(item, fId) = Str(<<" ","7"," ">>)
  /\ GetKey(row, kHandle) = Str(<<"v","w","-","g","o","l","f","-","2","-","0","-","t","d","i","-","7">>)

\* C9 as stated: slug(title) + '-' + id, the id alone when the slug is
\* empty, the slug alone when the id is undefined or null.
C9_AsStated ==
  Returned =>
    GetKey(row, kHandle) =
      Str(IF IsNullish(Field(item, fId)) THEN slugOf(titleOf(item))
          ELSE IF Len(slugOf(titleOf(item))) = 0 THEN ToStr(Field(item, fId))
          ELSE slugOf(titleOf(item)) \o <<"-">> \o ToStr(Field(item, fId)))

\* C10: the merge of the attribute columns changes no key the row has, and
\* adds a column exactly under a display name that is not yet a key.
C10_MergeKeepsKeys ==
  [][(pc = "core" /\ pc' = "merged") =>
       /\ \A k \in KeySet(row) : GetKey(row', k) = GetKey(row, k)
       /\ KeySet(row') = KeySet(row) \cup KeySet(attributeColumns')
       /\ \A k \in KeySet(attributeColumns') \ KeySet(row) : GetKey(row', k) = GetKey(attributeColumns', k)]_vars

\* a merge with one display name that was a key of the row, which keeps its
\* value, and one that was not, which is added
C10_Witness ==
  /\ pc = "merged"
  /\ \E k \in KeySet(attributeColumns) : GetKey(row, k) # GetKey(attributeColumns, k)
  /\ \E k \in KeySet(attributeColumns) : GetKey(row, k) = GetKey(attributeColumns, k)

\* C11: the row buildMetafieldsRow returns has neither the key 'Variant ID'
\* nor the key 'ITP', whatever the mapping list and the attributes.
C11_NoVariantIdNoItp == Returned => ~HasKey(row, kVariantID) /\ ~HasKey(row, kITP)

\* a returned row for a mapping list with the destinations 'ITP' and
\* 'Variant ID' and a record with the attribute HU, whose column is ITP
C11_Witness ==
  /\ Returned
  /\ HasKey(C7_MappedRow, kITP) /\ HasKey(C7_MappedRow, kVariantID)
  /\ HasKey(attributeColumns, kITP)
  /\ ~HasKey(row, kVariantID) /\ ~HasKey(row, kITP)

C12_IsRunChar(c) == IsDigit(c) \/ c \in {".", ","}

\* the places <<i, j>> of the longest runs of digits, dots and commas that
\* start with a digit
C12_Runs(s) ==
  {r \in (1..Len(s)) \X (1..Len(s)) :
     /\ r[1] <= r[2]
     /\ IsDigit(s[r[1]])
     /\ \A k \in r[1]..r[2] : C12_IsRunChar(s[k])
     /\ (r[2] = Len(s) \/ ~C12_IsRunChar(s[r[2] + 1]))}

\* the two letters of unit follow position p, after white space or none
C12_UnitFrom(s, p, unit) ==
  \E q \in p..(Len(s) - 1) :
    /\ \A k \in p..(q - 1) : IsSpace(s[k])
    /\ ToLowerCase(SubSeq(s, q, q + 1)) = unit

\* the runs that start at a word boundary and are followed by kW
C12_KwRuns(s) ==
  {r \in C12_Runs(s) : (r[1] = 1 \/ ~IsWordChar(s[r[1] - 1])) /\ C12_UnitFrom(s, r[2] + 1, <<"k","w">>)}

\* the runs between "(" and hp followed by ")"
C12_HpRuns(s) ==
  {r \in C12_Runs(s) :
     /\ r[1] > 1 /\ s[r[1] - 1] = "("
     /\ \E q \in (r[2] + 1)..(Len(s) - 2) :
          /\ \A k \in (r[2] + 1)..(q - 1) : IsSpace(s[k])
          /\ ToLowerCase(SubSeq(s, q, q + 1)) = <<"h","p">>
          /\ s[q + 2] = ")"}

\* the text of the leftmost run of R with the unit after it, '' for no run
C12_Leftmost(s, R, unit) ==
  IF R = {} THEN <<>>
  ELSE LET r == CHOOSE a \in R : \A b \in R : a[1] <= b[1]
       IN SubSeq(s, r[1], r[2]) \o unit

\* the Power value of the attributes, when they are an object or the JSON
\* text of an object, as a string; '' when there is none
C12_PowerText(it) ==
  LET a == Field(it, fAttributes)
      o == IF a.t = "obj" THEN a ELSE IF a.t = "str" /\ JSONParse(a.s).ok THEN JSONParse(a.s).v ELSE Undef
  IN IF Truthy(Prop(o, fPower)) THEN ToStr(Prop(o, fPower)) ELSE <<>>

\* C12, amended: the putere_kw column is the first number of the
\* attributes' Power value that starts at a word boundary and stands before
\* kW, with ' kW' after it; the putere_cp column is the first number between
\* '(' and 'hp)', with ' hp' after it; each is '' without such a number or
\* without Power, whatever the mapping step wrote into them.
C12_PowerColumns ==
  Returned =>
    /\ GetKey(row, kPutereKw) = Str(C12_Leftmost(C12_PowerText(item), C12_KwRuns(C12_PowerText(item)), <<" ","k","W">>))
    /\ GetKey(row, kPutereCp) = Str(C12_Leftmost(C12_PowerText(item), C12_HpRuns(C12_PowerText(item)), <<" ","h","p">>))

\* the mapping step wrote '110' and '150', the returned row holds '110 kW'
\* and '150 hp'
C12_Witness ==
  /\ Returned
  /\ GetKey(C7_MappedRow, kPutereKw) = Str(<<"1","1","0">>)
  /\ GetKey(C7_MappedRow, kPutereCp) = Str(<<"1","5","0">>)
  /\ GetKey(row, kPutereKw) = Str(<<"1","1","0"," ","k","W">>)
  /\ GetKey(row, kPutereCp) = Str(<<"1","5","0"," ","h","p">>)

\* C12 as stated: the two columns are extractKwHp of the attributes' Power
\* value in the modes 'kw' and 'cp'.
C12_AsStated ==
  Returned =>
    /\ GetKey(row, kPutereKw) = Str(extractKwHp(powerValOf(item), "kw"))
    /\ GetKey(row, kPutereCp) = Str(extractKwHp(powerValOf(item), "cp"))

\* the text a decoded feature is scanned as
C13_FeatureText(f) ==
  IF f.t = "obj" /\ Truthy(OrElse(GetKey(f.o, fName), GetKey(f.o, fTitle)))
  THEN ToStr(OrElse(GetKey(f.o, fName), GetKey(f.o, fTitle)))
  ELSE ToStr(f)

\* the decoded features field: its elements that are not empty, in order
C13_Decoded(it) ==
  LET fs == IF Truthy(Field(it, fFeatures)) THEN safeParseMaybeList(Field(it, fFeatures)) ELSE <<>>
      P == {i \in 1..Len(fs) : Truthy(fs[i])}
  IN [k \in 1..Cardinality(P) |-> C13_FeatureText(fs[NthSmallest(P, k)])]

\* the fields features/0 .. features/99 that are not empty, by index
C13_Indexed(it) ==
  LET P == {i \in 0..99 : Truthy(Field(it, <<"f","e","a","t","u","r","e","s","/">> \o NatToStr(i)))}
  IN [k \in 1..Cardinality(P) |-> ToStr(Field(it, <<"f","e","a","t","u","r","e","s","/">> \o NatToStr(NthSmallest(P, k))))]

C13_Code(feat) ==
  LET txt == ToLowerCase(Trim(feat))
  IN CASE txt = <<"r","e","a","r"," ","w","h","e","e","l"," ","d","r","i","v","e">> -> <<"4","x","2"," ","(","R","W","D",")">>
       [] txt = <<"f","r","o","n","t"," ","w","h","e","e","l"," ","d","r","i","v","e">> -> <<"2","x","4"," ","(","F","W","D",")">>
       [] txt \in {<<"f","o","u","r","-","w","h","e","e","l"," ","d","r","i","v","e">>, <<"f","o","u","r"," ","w","h","e","e","l"," ","d","r","i","v","e">>} -> <<"4","x","4"," ","(","A","W","D",")">>
       [] OTHER -> <<>>

\* the code of the first feature of the scan that has one, '' for none
C13_FirstCode(scan) ==
  LET M == {i \in 1..Len(scan) : Len(C13_Code(scan[i])) > 0}
  IN IF M = {} THEN <<>> ELSE C13_Code(scan[NthSmallest(M, 1)])

\* C13: the drive-train column is the code of the first feature, in the
\* scan of the decoded features field and then of features/0 .. features/99
\* by index, whose trimmed lower-case text is one of the four drive texts;
\* it is '' when no feature matches.
C13_DriveTrain ==
  Returned => GetKey(row, kTransmisie) = Str(C13_FirstCode(C13_Decoded(item) \o C13_Indexed(item)))

\* front wheel drive listed before rear wheel drive, and a features/0 field
C13_Witness ==
  /\ Returned
  /\ Field(item, fFeatures) = Arr(<<Str(<<"F","r","o","n","t"," ","w","h","e","e","l"," ","d","r","i","v","e">>), Obj(<< <<fName, Str(<<"R","e","a","r"," ","w","h","e","e","l"," ","d","r","i","v","e">>)>> >>)>>)
  /\ Field(item, <<"f","e","a","t","u","r","e","s","/","0">>) = Str(<<"R","e","a","r"," ","w","h","e","e","l"," ","d","r","i","v","e">>)
  /\ GetKey(row, kTransmisie) = Str(<<"2","x","4"," ","(","F","W","D",")">>)

\* mapToNewMetafields has returned: exported is the row it made of row
Exported == pc = "exported"

C14_NewNames == {NEW_METAFIELD_MAPPINGS[i][2] : i \in 1..Len(NEW_METAFIELD_MAPPINGS)}

\* the key under which mapToNewMetafields is to emit the key k, '' for a
\* key that is dropped
C14_Target(k) ==
  IF k \in ALWAYS_KEEP_FIELDS THEN k
  ELSE IF HasKey(NEW_METAFIELD_MAPPINGS, k) THEN GetKey(NEW_METAFIELD_MAPPINGS, k)
  ELSE <<>>

\* C14: every key of the row mapToNewMetafields returns is in
\* ALWAYS_KEEP_FIELDS or a new name of NEW_METAFIELD_MAPPINGS; a key of
\* ALWAYS_KEEP_FIELDS keeps its name and value, a key of
\* NEW_METAFIELD_MAPPINGS is emitted under its new name with its value, every
\* other key is dropped.
C14_RenameAndFilter ==
  Exported =>
    /\ KeySet(exported) \subseteq (ALWAYS_KEEP_FIELDS \cup C14_NewNames)
    /\ KeySet(exported) = {C14_Target(k) : k \in KeySet(row)} \ {<<>>}
    /\ \A k \in KeySet(row) : Len(C14_Target(k)) > 0 => GetKey(exported, C14_Target(k)) = GetKey(row, k)

\* C15: 'Metafield: custom.tva [single_line_text_field]' is 'Deductibile'
\* and 'Template Suffix' is 'produs_servicii' in every row
\* buildMetafieldsRow returns and in every row mapDatasetToMetafields
\* exports.
C15_FixedColumns ==
  /\ Returned => /\ GetKey(row, kTva) = Str(<<"D","e","d","u","c","t","i","b","i","l","e">>)
                 /\ GetKey(row, kTemplateSuffix) = Str(<<"p","r","o","d","u","s","_","s","e","r","v","i","c","i","i">>)
  /\ Exported => /\ GetKey(exported, kTva) = Str(<<"D","e","d","u","c","t","i","b","i","l","e">>)
                 /\ GetKey(exported, kTemplateSuffix) = Str(<<"p","r","o","d","u","s","_","s","e","r","v","i","c","i","i">>)

\* the row buildMetafieldsRow returns for the record it alone, and the row
\* mapDatasetToMetafields exports for it
C16_BuiltAlone(it) == buildMetafieldsRow(it, mappingList, [row |-> <<>>, tags |-> <<>>]).row
C16_ExportedAlone(it) == mapToNewMetafields(C16_BuiltAlone(it))

C16_RowsOfOwnRecord ==
  /\ \A i \in 1..Len(result) :
       /\ result[i].stage = "built" => result[i].row = C16_BuiltAlone(given.a[i])
       /\ result[i].stage = "exported" => result[i].row = C16_ExportedAlone(given.a[i])
  /\ Exported => exported = [i \in 1..Len(given.a) |-> C16_ExportedAlone(given.a[i])]

C17_HasColumn(env, name) ==
  /\ Len(env.sheets) > 0
  /\ Len(env.sheets[1].rows) > 0
  /\ \E c \in 1..Len(env.sheets[1].rows[1]) :
       ToLowerCase(Trim(ToStr(OrElse(env.sheets[1].rows[1][c], EmptyStr)))) = name

\* the sheet 'Metafields_Mapping' has a header cell that starts with
\* 'molbile' once trimmed and put in lower case
C17_HasSourceColumn(env) ==
  \E s \in 1..Len(env.sheets) :
    /\ env.sheets[s].name = <<"M","e","t","a","f","i","e","l","d","s","_","M","a","p","p","i","n","g">>
    /\ Len(env.sheets[s].rows) > 0
    /\ \E c \in 1..Len(env.sheets[s].rows[1]) :
         StartsWith(ToLowerCase(Trim(ToStr(OrElse(env.sheets[s].rows[1][c], EmptyStr)))), <<"m","o","l","b","i","l","e">>)

\* C17: loadMapping raises when the file is missing or the header row has
\* no 'Shopify' or no 'Source' column, compared without case, and returns
\* otherwise; loadMetafieldsMappingFile never raises, and returns the empty
\* list when the file is missing, the sheet 'Metafields_Mapping' is absent
\* or no source column is found.
C17_LoaderErrorPolicy ==
  /\ call.op = "loadMapping" =>
       (call.thrown <=> (~given.exists \/ ~C17_HasColumn(given, <<"s","h","o","p","i","f","y">>) \/ ~C17_HasColumn(given, <<"s","o","u","r","c","e">>)))
  /\ call.op = "loadMetafieldsMappingFile" =>
       /\ ~call.thrown
       /\ (~given.exists \/ ~C17_HasSourceColumn(given)) => result = <<>>

\* loadMapping raised on a header with 'Shopify' and no 'Source'
C17_Witness ==
  /\ call.op = "loadMapping"
  /\ call.thrown
  /\ given.exists
  /\ C17_HasColumn(given, <<"s","h","o","p","i","f","y">>)
  /\ ~C17_HasColumn(given, <<"s","o","u","r","c","e">>)

(***************************************************************************)
(* The reader of C18 and C19: records end at a line feed outside quotes,   *)
(* fields at a comma outside quotes, a field in quotes stands for its      *)
(* inside with every doubled quote read as one.  A position is outside     *)
(* quotes when an even number of quotes comes before it.                   *)
(***************************************************************************)
C18_Outside(s, i) == Cardinality({j \in 1..(i - 1) : s[j] = Quote}) % 2 = 0

C18_Pieces(s, sep) ==
  LET P == {i \in 1..Len(s) : s[i] = sep /\ C18_Outside(s, i)}
  IN [j \in 1..(Cardinality(P) + 1) |-> SubSeq(s, CutAt(s, P, j - 1) + 1, CutAt(s, P, j) - 1)]

\* the first quote of every pair of quotes stays
C18_Undoubled(s) ==
  LET keep == {i \in 1..Len(s) : s[i] # Quote \/ C18_Outside(s, i)}
  IN [k \in 1..Cardinality(keep) |-> s[NthSmallest(keep, k)]]

C18_Field(f) ==
  IF Len(f) >= 2 /\ f[1] = Quote /\ f[Len(f)] = Quote THEN C18_Undoubled(SubSeq(f, 2, Len(f) - 1)) ELSE f

\* the records of a text, each the tuple of its fields
C18_Read(text) ==
  LET recs == C18_Pieces(text, "\n")
  IN [r \in 1..Len(recs) |-> LET fs == C18_Pieces(recs[r], ",") IN [c \in 1..Len(fs) |-> C18_Field(fs[c])]]

C18_Column(header, k) == CHOOSE c \in 1..Len(header) : header[c] = k

Written == pc = "csv" /\ IsArray(given) /\ Len(given.a) > 0

\* C18: the reader gives back one record for the header and one for every
\* row, and under every key of a row the text of its string value; the
\* keys are column names of the program, which hold no comma, quote or
\* line feed.
C18_RoundTrip ==
  Written =>
    LET recs == C18_Read(result.s)
    IN /\ Len(recs) = Len(given.a) + 1
       /\ \A r \in 1..Len(given.a) : \A e \in 1..Len(given.a[r].o) :
            given.a[r].o[e][2].t = "str" =>
              /\ \E c \in 1..Len(recs[1]) : recs[1][c] = given.a[r].o[e][1]
              /\ C18_Column(recs[1], given.a[r].o[e][1]) <= Len(recs[r + 1])
              /\ recs[r + 1][C18_Column(recs[1], given.a[r].o[e][1])] = given.a[r].o[e][2].s

\* a value with a comma, quotes and a line feed has been written and read
C18_Witness ==
  /\ Written
  /\ Len(given.a) = 2
  /\ GetKey(given.a[1].o, kTitle) = Str(<<"s","a","y"," ","\"","h","i","\"",","," ","t","h","e","n","\n","l","e","a","v","e">>)
  /\ C18_Read(result.s)[2][C18_Column(C18_Read(result.s)[1], kTitle)] = <<"s","a","y"," ","\"","h","i","\"",","," ","t","h","e","n","\n","l","e","a","v","e">>

\* the place of the first appearance of the key k in the rows: the row and
\* the place in the row
C19_FirstRow(rows, k) == CHOOSE r \in 1..Len(rows) : HasKey(rows[r].o, k) /\ \A q \in 1..(r - 1) : ~HasKey(rows[q].o, k)
C19_Before(rows, k, l) ==
  \/ C19_FirstRow(rows, k) < C19_FirstRow(rows, l)
  \/ /\ C19_FirstRow(rows, k) = C19_FirstRow(rows, l)
     /\ KeyIndex(rows[C19_FirstRow(rows, k)].o, k) < KeyIndex(rows[C19_FirstRow(rows, l)].o, l)

\* C19: the header line holds every key of every row once, in the order of
\* first appearance; every data line has one cell for every header column,
\* and the cell of a key the row lacks or holds null or undefined for is
\* empty.
C19_HeaderAndCells ==
  Written =>
    LET recs == C18_Read(result.s)
        header == recs[1]
        rows == given.a
    IN /\ {header[c] : c \in 1..Len(header)} = UNION {KeySet(rows[r].o) : r \in 1..Len(rows)}
       /\ \A c, d \in 1..Len(header) : c < d => header[c] # header[d] /\ C19_Before(rows, header[c], header[d])
       /\ Len(recs) = Len(rows) + 1
       /\ \A r \in 1..Len(rows) :
            /\ Len(recs[r + 1]) = Len(header)
            /\ \A c \in 1..Len(header) : IsNullish(GetKey(rows[r].o, header[c])) => recs[r + 1][c] = <<>>

\* two rows with different keys: the second has no cell for the first key
\* of the header
C19_Witness ==
  /\ Written
  /\ Len(given.a) = 2
  /\ Keys(given.a[1].o) = <<kTitle, kImageAltText>>
  /\ Keys(given.a[2].o) = <<kVendor, kTitle>>
  /\ C18_Read(result.s)[1] = <<kTitle, kImageAltText, kVendor>>
  /\ C18_Read(result.s)[3][2] = <<>>

Listed == pc = "list"

C20_Delimited(str) == HasChar(str, ";") \/ HasChar(str, ",")

\* the pieces between the delimiters, each without the white space at its
\* two ends, the empty ones left out
C20_TrimmedPieces(str) ==
  LET raw == Split(str, {";", ","})
  IN SelectSeq([j \in 1..Len(raw) |-> Str(Trim(raw[j]))], LAMBDA p : Len(p.s) > 0)

\* the pieces between the delimiters, each but the first without the white
\* space at its start, the empty ones left out
C20_Pieces(str) ==
  LET raw == Split(str, {";", ","})
  IN SelectSeq([j \in 1..Len(raw) |->
                  Str(IF j = 1 THEN raw[j] ELSE SubSeq(raw[j], FirstNonSpace(raw[j], 1), Len(raw[j])))],
               LAMBDA p : Len(p.s) > 0)

\* the list of a value that is neither null, undefined nor an array, str
\* its trimmed text; pieces cuts a text at its delimiters
C20_ListOfText(str, pieces(_)) ==
  IF Len(str) = 0 THEN <<>>
  ELSE IF JSONParse(str).ok
    THEN IF IsArray(JSONParse(str).v) THEN JSONParse(str).v.a
         ELSE IF JSONParse(str).v.t = "obj" THEN <<JSONParse(str).v>>
         ELSE <<>>
  ELSE IF C20_Delimited(str) THEN pieces(str)
  ELSE <<Str(str)>>

C20_ListOf(value, pieces(_)) ==
  IF IsNullish(value) THEN <<>>
  ELSE IF IsArray(value) THEN value.a
  ELSE C20_ListOfText(Trim(ToStr(value)), pieces)

\* C20 as stated: a text that is not JSON and holds ';' or ',' is cut at the
\* delimiters with the white space on both sides of each removed.
C20_AsStated == Listed => result = Arr(C20_ListOf(given, C20_TrimmedPieces))

\* C20: null and undefined give the empty list, an array itself; any other
\* value is taken as its trimmed text: the empty text gives the empty list,
\* a JSON array its elements, a JSON object the list of it, other JSON the
\* empty list; a text that is not JSON and holds ';' or ',' is cut at the
\* delimiters, the white space after each delimiter removed and the white
\* space before it kept, empty pieces left out; any other text gives the
\* list of the trimmed text.
C20_CoerceToList == Listed => result = Arr(C20_ListOf(given, C20_Pieces))

\* white space before a delimiter stays in the piece
C20_Witness ==
  /\ Listed
  /\ given = Str(<<"a"," ",";"," ","b"," ",","," ","c">>)
  /\ result = Arr(<<Str(<<"a"," ">>), Str(<<"b"," ">>), Str(<<"c">>)>>)

Extracted == pc = "extracted"

\* t is a whole number of the text s: a run of digits with no digit before
\* or after it
C21_WholeNumber(s, t) ==
  \E i \in 1..Len(s) :
    /\ i + Len(t) - 1 <= Len(s)
    /\ SubSeq(s, i, i + Len(t) - 1) = t
    /\ \A j \in 1..Len(t) : IsDigit(t[j])
    /\ (i > 1 => ~IsDigit(s[i - 1]))
    /\ (i + Len(t) <= Len(s) => ~IsDigit(s[i + Len(t)]))

\* C21: extractKwHp returns the empty string or a whole number of 2 to 4
\* digits of the text, never a fragment of a longer number; '195 kW (265 hp)'
\* gives '195' in mode 'kw' and '265' in mode 'cp'.
C21_WholeNumberOrEmpty ==
  Extracted =>
    /\ \/ result = EmptyStr
       \/ /\ ~IsNullish(given.value)
          /\ Len(result.s) \in 2..4
          /\ C21_WholeNumber(ToStr(given.value), result.s)
    /\ given.value = Str(<<"1","9","5"," ","k","W"," ","(","2","6","5"," ","h","p",")">>) => result = Str(IF given.mode = "kw" THEN <<"1","9","5">> ELSE <<"2","6","5">>)

\* expandAttributesToColumns has returned its columns
Expanded == pc \in {"merged", "done", "exported"}

\* the attributes expandAttributesToColumns loops over
C22_Attrs == decodeAttrs(expandRawAttrs(item)).attrs

C22_RawName(attr) == IF Truthy(attr.name) THEN Trim(ToStr(attr.name)) ELSE <<>>

\* the translated name, or the raw name when there is no translation
C22_DisplayName(attr) ==
  IF HasKey(ATTR_TRANSLATIONS, C22_RawName(attr)) THEN GetKey(ATTR_TRANSLATIONS, C22_RawName(attr))
  ELSE C22_RawName(attr)

\* the first attribute with the display name k
C22_First(attrs, k) ==
  CHOOSE i \in 1..Len(attrs) :
    /\ Len(C22_RawName(attrs[i])) > 0 /\ C22_DisplayName(attrs[i]) = k
    /\ \A j \in 1..(i - 1) : ~(Len(C22_RawName(attrs[j])) > 0 /\ C22_DisplayName(attrs[j]) = k)

\* C22: the columns are the display names of the attributes with a name,
\* and every column holds what the first attribute with that display name
\* gives when it is expanded alone.
C22_FirstWins ==
  Expanded =>
    /\ KeySet(attributeColumns) =
         {C22_DisplayName(C22_Attrs[i]) : i \in {j \in 1..Len(C22_Attrs) : Len(C22_RawName(C22_Attrs[j])) > 0}}
    /\ \A k \in KeySet(attributeColumns) :
         GetKey(attributeColumns, k) = GetKey(expandOne(<<>>, C22_Attrs[C22_First(C22_Attrs, k)]), k)

\* 'Power', then 'Putere', then 'Power' again: the column 'Putere' is that
\* of the first
C22_Witness ==
  /\ Expanded
  /\ Len(C22_Attrs) = 3
  /\ C22_RawName(C22_Attrs[1]) = <<"P","o","w","e","r">>
  /\ C22_RawName(C22_Attrs[2]) = <<"P","u","t","e","r","e">>
  /\ C22_RawName(C22_Attrs[3]) = <<"P","o","w","e","r">>
  /\ attributeColumns = << <<<<"P","u","t","e","r","e">>, Str(<<"1","1","0">>)>> >>

\* the value of item.attributes when it is an object, the empty object
\* otherwise
C23_Entries == IF item.t = "obj" /\ Field(item, fAttributes).t = "obj" THEN Field(item, fAttributes).o ELSE <<>>

\* String(val).trim() of the value, of its first element when it is an
\* array with elements, '' for null and undefined
C23_Text(val) ==
  LET v == IF IsArray(val) /\ Len(val.a) > 0 THEN val.a[1] ELSE val
  IN IF IsNullish(v) THEN <<>> ELSE Trim(ToStr(v))

C23_FirstWord(s) == Split(s, {" ", "\t", "\n", "\r"})[1]

\* the longest leading run of digits, ',', '.' and '/'
C23_NumericRun(s) ==
  LET stop == {i \in 1..Len(s) : ~(IsDigit(s[i]) \/ s[i] \in {",", ".", "/"})}
  IN SubSeq(s, 1, IF stop = {} THEN Len(s) ELSE NthSmallest(stop, 1) - 1)

C23_AfterComma(s) == Trim(SubSeq(s, IndexOf(s, ",") + 1, Len(s)))
C23_BeforeComma(s) == Trim(SubSeq(s, 1, IndexOf(s, ",") - 1))

\* the shortening; emptyCounts says whether a comma with nothing after it,
\* or with no word before it, cuts the value as well
C23_Short(s, emptyCounts) ==
  IF Len(s) > 0 /\ IsDigit(s[1])
  THEN IF \E i \in 1..Len(C23_FirstWord(s)) : IsLetter(C23_FirstWord(s)[i]) THEN C23_FirstWord(s)
       ELSE C23_NumericRun(s)
  ELSE IF /\ HasChar(s, ",")
          /\ (Len(C23_AfterComma(s)) = 0 \/ ~IsDigit(C23_AfterComma(s)[1]))
          /\ (emptyCounts \/ (Len(C23_AfterComma(s)) > 0 /\ Len(C23_FirstWord(C23_BeforeComma(s))) > 0))
    THEN C23_FirstWord(C23_BeforeComma(s))
  ELSE C23_FirstWord(s)

C23_Translated(rawName, short) ==
  IF rawName \notin {<<"C","o","l","o","u","r">>, <<"C","o","l","o","u","r"," ","(","M","a","n","u","f","a","c","t","u","r","e","r",")">>} /\ HasKey(VALUE_TRANSLATIONS, short)
  THEN GetKey(VALUE_TRANSLATIONS, short) ELSE short

C23_Columns(emptyCounts) ==
  \A e \in 1..Len(C23_Entries) :
    (Len(Trim(C23_Entries[e][1])) > 0 /\ \A d \in 1..(e - 1) :
         Lookup(ATTR_TRANSLATIONS, Trim(C23_Entries[d][1]), Trim(C23_Entries[d][1]))
           # Lookup(ATTR_TRANSLATIONS, Trim(C23_Entries[e][1]), Trim(C23_Entries[e][1])))
    => GetKey(attributeColumns, Lookup(ATTR_TRANSLATIONS, Trim(C23_Entries[e][1]), Trim(C23_Entries[e][1])))
         = Str(C23_Translated(Trim(C23_Entries[e][1]), C23_Short(C23_Text(C23_Entries[e][2]), emptyCounts)))

Mapped == pc = "mapped"

\* item[source] for the entry i
C24_Value(i) == IF Truthy(item) THEN Field(item, mappingList[i].source) ELSE Undef

\* the destinations that are written: <<i, j>> for the destination j, with
\* a name, of an entry i whose value is not undefined, null or ''
C24_Live ==
  {p \in UNION {{<<i, j>> : j \in 1..Len(mappingList[i].dests)} : i \in 1..Len(mappingList)} :
     /\ ~IsNullish(C24_Value(p[1])) /\ C24_Value(p[1]) # EmptyStr
     /\ Len(mappingList[p[1]].dests[p[2]]) > 0}

C24_Dest(p) == Trim(mappingList[p[1]].dests[p[2]])

C24_Later(p, q) == p[1] < q[1] \/ (p[1] = q[1] /\ p[2] < q[2])

\* the last written destination with the name k
C24_Last(k) == CHOOSE p \in C24_Live : C24_Dest(p) = k /\ \A q \in C24_Live : C24_Dest(q) = k => ~C24_Later(p, q)

\* what the entry writes: its value, or for the source 'attributes/Power'
\* and a metafield of putere_cp or putere_kw the number extractKwHp finds
C24_Written(p, extracting) ==
  IF extracting /\ mappingList[p[1]].source = kAttributesPower /\ StartsWith(C24_Dest(p), <<"M","e","t","a","f","i","e","l","d">>)
  THEN IF Includes(C24_Dest(p), <<"p","u","t","e","r","e","_","c","p">>) THEN Str(extractKwHp(C24_Value(p[1]), "cp"))
       ELSE IF Includes(C24_Dest(p), <<"p","u","t","e","r","e","_","k","w">>) THEN Str(extractKwHp(C24_Value(p[1]), "kw"))
       ELSE C24_Value(p[1])
  ELSE C24_Value(p[1])

\* several limits the last conjunct to the destinations named more than once
C24_Step(extracting, several) ==
  /\ ~HasKey(row, kTags)
  /\ {tagsSet[t] : t \in 1..Len(tagsSet)} = {ToStr(C24_Value(p[1])) : p \in {q \in C24_Live : C24_Dest(q) = kTags}}
  /\ KeySet(row) = {C24_Dest(p) : p \in C24_Live} \ {kTags}
  /\ \A k \in KeySet(row) :
       (several => Cardinality({p \in C24_Live : C24_Dest(p) = k}) > 1)
       => GetKey(row, k) = C24_Written(C24_Last(k), extracting)

\* C24 as stated: every destination other than 'Tags' holds the source
\* value of the last entry that names it.
C24_AsStated == Mapped => C24_Step(FALSE, TRUE)

\* C24: after the mapping step an entry whose value is undefined, null or
\* '' has changed nothing, the destinations named 'Tags' have only added
\* their values to the tag set, and every other destination holds what the
\* last entry that names it writes: its source value, or for the source
\* 'attributes/Power' and a metafield of putere_cp or putere_kw the number
\* extractKwHp finds in it.
C24_MappingStep == Mapped => C24_Step(TRUE, FALSE)

\* 'Custom' is named by the entries of title, brand, a missing field, the
\* power and the seller: it holds the seller; the putere_cp metafield is
\* named by the title and then the power: it holds the extracted number
C24_Witness ==
  /\ Mapped
  /\ mappingList = RepeatedMappings
  /\ item = Obj(BaseEntries)
  /\ GetKey(row, <<"C","u","s","t","o","m">>) = Num(9)
  /\ GetKey(row, kPutereCp) = Str(<<"1","5","0">>)
  /\ GetKey(row, kVendor) = Str(<<"G","o","l","f">>)
  /\ tagsSet = <<<<"V","W"," ","G","o","l","f"," ","2",".","0"," ","T","D","I">>, <<"V","W">>, <<"G","o","l","f">>>>

(***************************************************************************)
(* C25: GET /api/run-results, the xlsx workbook                            *)
(***************************************************************************)
Responded == pc = "responded"

\* the items of the dataset
C25_DatasetItems == arrayOrEmpty(given.env.dataset)

\* C25: whenever the response is an xlsx workbook, the workbook holds a
\* header row and one row for each item of the dataset, whether or not
\* normalized is 'true' and whatever the letter case of the format
C25_RowPerItem ==
  (Responded /\ result.type = "xlsx") => Len(result.body) = 1 + Len(C25_DatasetItems)

\* the same for the format 'xlsx' in lower case only
C25_RowPerItemLowerCase ==
  (Responded /\ result.type = "xlsx" /\ formatOf(given.query) = Str(<<"x","l","s","x">>))
    => Len(result.body) = 1 + Len(C25_DatasetItems)

C25_Witness ==
  /\ Responded /\ result.type = "xlsx"
  /\ ~doNormalize(given.query)
  /\ formatOf(given.query) = Str(<<"x","l","s","x">>)
  /\ Len(result.body) = 3

(***************************************************************************)
(* C26, C27: the poll loop of the page                                     *)
(***************************************************************************)
\* the step in which the callback of the poll r ends
C26_Ends(r) == r \in inFlight /\ inFlight' = inFlight \ {r}

\* the callback has seen one of the statuses that end a run
C26_SawEnd == ~result'.failed /\ Prop(result'.status, <<"s","t","a","t","u","s">>) \in {Str(sSucceeded), Str(sFailed), Str(sAborted)}

\* a poll is sent only by the timer, three seconds after it was set or
\* after the poll before, and while the timer is set no fourth second
\* passes without a poll
C26_EveryThreeSeconds ==
  /\ sent' # sent => (timer = "set" /\ clock = PollInterval /\ clock' = 0 /\ sent' = sent + 1)
  /\ clock' # clock => (timer' = "set" /\ clock' <= PollInterval)

\* the callback clears the timer when it saw SUCCEEDED, FAILED or ABORTED
\* and when its request failed, and leaves the timer as it is otherwise
C26_ClearsTimer ==
  \A r \in inFlight :
    C26_Ends(r) => IF result'.failed \/ C26_SawEnd THEN timer' = "cleared" ELSE timer' = timer

\* nothing but the end of a callback clears the timer
C26_OnlyCallbackClears ==
  (timer = "set" /\ timer' = "cleared") => \E r \in inFlight : C26_Ends(r)

\* the links change only when a callback saw SUCCEEDED, and then they are
\* the download links
C26_LinksAfterSucceeded ==
  (links' # links /\ links' # <<>>) =>
     /\ \E r \in inFlight : C26_Ends(r) /\ r.answer = runJson(sSucceeded)
     /\ links' = downloads(given.runId)

\* C26: after a run is started the page polls every three seconds; the
\* timer is cleared as soon as a poll observes SUCCEEDED, FAILED or ABORTED
\* or a poll request fails, polling continues for every other status, and
\* the download links are rendered only after a poll observed SUCCEEDED
C26_PollLoop ==
  /\ [](timer = "none" => (sent = 0 /\ links = <<>>))
  /\ [][C26_EveryThreeSeconds /\ C26_ClearsTimer /\ C26_OnlyCallbackClears /\ C26_LinksAfterSucceeded]_vars

C26_Witness ==
  /\ timer = "cleared"
  /\ sent = 3
  /\ links = downloads(given.runId)
  /\ progress = <<"R","u","n"," ","s","u","c","c","e","e","d","e","d","."," ","5"," ","i","t","e","m","s",".">>
  /\ result.id = 3
  /\ inFlight = {}

\* the progress text of a run that has ended
C27_FinalText == StartsWith(progress, <<"R","u","n"," ","s","u","c","c","e","e","d","e","d">>) \/ StartsWith(progress, <<"R","u","n"," ","e","n","d","e","d"," ","w","i","t","h"," ","s","t","a","t","u","s">>)

\* C27: once a poll response has set the progress text to 'Run succeeded'
\* or 'Run ended with status ...' and has cleared the timer, no response of
\* a poll that was started earlier and is still in flight changes the
\* progress text or the download links
C27_NoLateChange ==
  [][\A r \in inFlight :
       (timer = "cleared" /\ C27_FinalText /\ ~result.failed /\ r.id < result.id /\ C26_Ends(r))
         => (progress' = progress /\ links' = links)]_vars

(***************************************************************************)
(* C28: the exported putere_cp metafield                                   *)
(***************************************************************************)
\* buildMetafieldsRow has set the putere_cp metafield of the row to the hp
\* value of the attributes' Power
C28_Recomputed == GetKey(row, kPutereCp) = Str(powerHpOf(item))

\* C28: in every exported row the putere_cp metafield holds the hp value
\* buildMetafieldsRow recomputed from the attributes' Power, for every
\* mapping list and every order of the row's keys; the renamed column
\* 'Putere' is never the exported value
C28_ExportedHp ==
  Exported => (C28_Recomputed /\ GetKey(exported, kPutereCp) = Str(powerHpOf(item)))

\* the same for the rows in which the attribute columns were merged before
\* the putere_cp key was created
C28_ExportedHpMergedFirst ==
  (Exported /\ HasKey(row, <<"P","u","t","e","r","e">>) /\ KeyIndex(row, <<"P","u","t","e","r","e">>) < KeyIndex(row, kPutereCp))
     => (C28_Recomputed /\ GetKey(exported, kPutereCp) = Str(powerHpOf(item)))

C28_Witness ==
  /\ Exported
  /\ HasKey(row, <<"P","u","t","e","r","e">>) /\ KeyIndex(row, <<"P","u","t","e","r","e">>) < KeyIndex(row, kPutereCp)
  /\ GetKey(exported, kPutereCp) = Str(<<"1","5","0"," ","h","p">>)
  /\ GetKey(row, <<"P","u","t","e","r","e">>) = Str(<<"1","1","0">>)

(***************************************************************************)
(* C29: the Variant Price as a function of the amount                      *)
(***************************************************************************)
Priced == pc = "priced"

RECURSIVE C29_Nat(_)
C29_Nat(ds) == IF Len(ds) = 0 THEN 0 ELSE 10 * C29_Nat(SubSeq(ds, 1, Len(ds) - 1)) + DigitVal(ds[Len(ds)])

\* the hundredths of a price text with up to two decimals
C29_Cents(s) ==
  IF IndexOf(s, ".") = 0 THEN 100 * C29_Nat(s)
  ELSE 100 * C29_Nat(SubSeq(s, 1, IndexOf(s, ".") - 1))
       + C29_Nat(SubSeq(SubSeq(s, IndexOf(s, ".") + 1, Len(s)) \o <<"0">>, 1, 2))

\* the number of breakpoints not above an amount in hundredths
C29_Bracket(c) == Cardinality({b \in Breakpoints : 100 * b <= c})

\* C29: the Variant Price is non-decreasing in the parsed amount: for two
\* positive amounts a <= b the price of a is not greater than the price of
\* b, also on either side of a commission breakpoint
C29_Monotone == Priced => C29_Cents(result.a) <= C29_Cents(result.b)

\* the price is non-decreasing among the amounts of one commission bracket,
\* and at every breakpoint it falls: the price of the breakpoint is below
\* the price of the amount one hundredth under it
C29_MonotoneInBracket ==
  Priced =>
    /\ C29_Bracket(given.a) = C29_Bracket(given.b) => C29_Cents(result.a) <= C29_Cents(result.b)
    /\ \A b \in Breakpoints :
         (given.a = 100 * b - 1 /\ given.b = 100 * b) => C29_Cents(result.a) > C29_Cents(result.b)

C29_Witness ==
  /\ Priced
  /\ given.a = 2499999 /\ given.b = 2500000
  /\ C29_Cents(result.a) > C29_Cents(result.b)

(***************************************************************************)
(* C30: Handle and Variant SKU                                             *)
(***************************************************************************)
C30_Sku == GetKey(row, kVariantSKU).s
C30_Handle == GetKey(row, kHandle).s

\* the text ends with '-' followed by the suffix
C30_EndsWithId(text, suffix) ==
  /\ Len(text) > Len(suffix)
  /\ SubSeq(text, Len(text) - Len(suffix), Len(text)) = <<"-">> \o suffix

\* C30: in every row buildMetafieldsRow returns, when Variant SKU is not
\* empty the Handle equals Variant SKU or ends with '-' followed by
\* Variant SKU, and when Variant SKU is empty the Handle is the slug of the
\* title with no id suffix; for every id, null and ids with leading or
\* trailing whitespace included
C30_HandleAgreesWithSku ==
  Returned =>
    IF Len(C30_Sku) > 0 THEN C30_Handle = C30_Sku \/ C30_EndsWithId(C30_Handle, C30_Sku)
    ELSE C30_Handle = slugOf(titleOf(item))

\* the same for the ids that are neither null nor a text with whitespace
\* at its start or end
C30_HandleAgreesForPlainIds ==
  (Returned /\ Field(item, fId).t # "null" /\ Trim(ToStr(Field(item, fId))) = ToStr(Field(item, fId)))
     => IF Len(C30_Sku) > 0 THEN C30_Handle = C30_Sku \/ C30_EndsWithId(C30_Handle, C30_Sku)
        ELSE C30_Handle = slugOf(titleOf(item))

====
